---- MODULE Spec2Model ----
(***************************************************************************)
(* A model of the thread-artifact store of ai2-scholarqa-lib              *)
(* (artifact_client.py, artifact_writer.py, progress_artifact_writer.py)  *)
(* and of the section step of the edit pipeline (rag/edit_pipeline.py).   *)
(*                                                                         *)
(*   SpecMerge  the pure merge functions of ArtifactClient applied to     *)
(*              trees and nodes drawn from small sets                      *)
(*   Spec       two writers running read -> updater -> write cycles on    *)
(*              one thread file                                            *)
(*   SpecEdit   step_execute_section_edit applied to the sections of a    *)
(*              report under a plan                                        *)
(***************************************************************************)
EXTENDS Integers, Sequences, FiniteSets, TLC

\* ------------------------------------------------------------------ bounds
\* calls each writer makes in the Spec model
MaxCalls == 2
\* merge calls made in the SpecMerge model
MaxMergeCalls == 3
\* version of the thread when the model starts
InitVersion == 5
\* the default of thread_artifact.get('version', 1)
DefaultVersion == 1

VARIABLES
    \* ---- Spec: the artifact file and the two writers
    file,          \* content of the artifact path: [kind, tree]
    file0,         \* history: the file when the writers were constructed
    tmp,           \* per writer: the '.tmp_*.json' file of its write_artifact
    pc,            \* per writer: position in write_artifact / update_artifact
    message_id,    \* per writer: self.message_id
    obj_version,   \* per writer: self.report_version / self.progress_version
    steps,         \* per writer: self.steps (progress writer)
    report,        \* per writer: the node built by the current call
    artifact,      \* per writer: update_artifact's local `artifact`
    updated,       \* per writer: update_artifact's local `updated_artifact`
    called,        \* per writer, history: the updater ran in the current call
    success,       \* per writer: what update_artifact returned last
    merged,        \* per writer, history: merges of this writer that reached the file
    clock,         \* datetime.now(timezone.utc) in SpecMerge
    \* ---- SpecMerge: one merge function applied at a time
    mTree,         \* the tree the next call is given
    mBefore,       \* the argument of the last call, before the call
    mArg,          \* the argument object of the last call, after the call
    mResult,       \* what the last call returned or raised
    mCall,         \* the last call: [op, message_id, report]
    mCount,        \* calls made
    \* ---- SpecEdit: the section step of the edit pipeline
    current_report,   \* full_report.sections
    section_plans,    \* EditPlan.section_plans
    edit_count,       \* calls of step_execute_section_edit made
    llm_log,          \* the prompts llm_completion was called with, in order
    edit_call,        \* the last call: [section_index, section, section_plan]
    edit_result,      \* what the last call returned or raised
    \* ---- SpecRun: one run of the edit pipeline
    run_state,        \* the stage the run is in, "DONE" or "FAILED"
    mentioned_papers, \* corpus ids the user mentioned
    decision,         \* the SearchDecision step_decide_search returned
    edit_plan,        \* the EditPlan step_generate_edit_plan returned
    edited_sections,  \* per section of the report: what its section step gave
    created_sections, \* the sections step_create_new_section returned
    calls,            \* every completion call of the run: [stage, target, outcome]
    final_report,     \* the sections of the report the run returned
    \* ---- SpecSynth: the section synthesizer applied to a plan
    plan_dimensions,  \* the plan: one dimension per section to write
    dim_index,        \* dimensions of the plan gone through
    already_written,  \* texts of the sections written so far, markers stripped
    yielded,          \* the sections the synthesizer has yielded
    synth_log,        \* the completion calls of the synthesizer, in order
    \* ---- SpecQuotes: the quote extractor applied to the scored references
    quote_responses,  \* per reference, in scored order: its completion's outcome
    arrived,          \* the references whose worker has returned, in arrival order
    per_paper_summaries, \* the extractor's result: <<[key, quote]>>
    quotes_state,     \* "idle", "extracting", "done", "planned"
    planner_input,    \* the [key, quote] sequence the planner was invoked with
    quote_plan,       \* the plan: per dimension, its quote indices
    resolved,         \* per dimension written: the references the synthesizer took
    \* ---- SpecBatch: one call of batch_llm_completion
    batch_messages,   \* len(messages)
    results,          \* per message: its parsed completion, or None
    pending,          \* the indices (from 1) of the messages to send next
    curr_retry,       \* rounds done
    batch_state,      \* "idle", "running", "returned", "raised"
    batch_log,        \* per round: what was sent, the responses, whether it raised
    \* ---- SpecCite: citation keys from the prompt to the parsed response
    scored_df,        \* the rows of the reranked references
    cited,            \* the rows whose key the response cites, in the text's order
    section_texts,    \* the section texts parsed from the response
    summaries,        \* what build_per_paper_summaries returned
    cite_state,       \* "idle", "generated", "built"
    \* ---- SpecConfig: construction and first use of the one-shot generators
    report_generation_args, \* the argument of ScholarQALite(): None or a dict
    api_key_arg,      \* the api_key argument of ModalResponseGenerator()
    environ,          \* os.environ.get("MODAL_PLAYGROUND_API_KEY")
    lite,             \* the ScholarQALite instance, if any
    modal,            \* the ModalResponseGenerator instance, if any
    \* ---- SpecCost: CostAwareLLMCaller around the section-edit step of a run
    step_results,     \* per plan entry: what step_execute_section_edit returned
    cost_state,       \* "idle", "called", "iterating", "returned", "AttributeError"
    cost_pos,         \* step results handed to the caller so far
    all_results,      \* call_iter_method: the main results yielded
    all_completion_costs,  \* call_iter_method: the completions collected
    all_completion_models, \* call_iter_method: their models
    reported,         \* the completion lists given to report_llm_usage, in order
    cost_result,      \* the CostAwareLLMResult of the last call that returned
    \* ---- SpecWatch: the file watcher's handler
    wfile,            \* what the artifact path t.json holds
    processed_artifacts, \* ArtifactFileHandler.processed_artifacts
    processing_lock,  \* ArtifactFileHandler.processing_lock
    wpc,              \* where the handler is: "idle", "enter", "sleep", "callback", "returned"
    wevent,           \* the event dispatched last
    wartifact,        \* the artifact the handler loaded for it
    events_seen,      \* events dispatched so far
    reads,            \* artifact files opened so far
    completed,        \* history: the paths whose callback returned without raising
    read_failed,      \* history: the paths whose read or parse raised
    woutcome,         \* how the last _process_artifact ended
    second_call,      \* what a second call made during the first one did
    \* ---- SpecUnified: UnifiedScholarQA.generate_report
    response_generator, \* self.response_generator: "None" or "configured"
    unified_pc,       \* where generate_report is
    requests,         \* the generation requests issued for the current report
    response,         \* generate_report's variable response
    parsed_response,  \* the response the report was parsed from
    reports           \* reports asked for so far

artifactVars == <<file, file0, tmp, pc, message_id, obj_version, steps, report,
                  artifact, updated, called, success, merged>>
mergeVars == <<mTree, mBefore, mArg, mResult, mCall, mCount>>
editVars == <<current_report, section_plans, edit_count, llm_log, edit_call, edit_result>>
runVars == <<run_state, mentioned_papers, decision, edit_plan, edited_sections,
             created_sections, calls, final_report>>
synthVars == <<plan_dimensions, dim_index, already_written, yielded, synth_log>>
quoteVars == <<quote_responses, arrived, per_paper_summaries, quotes_state,
               planner_input, quote_plan, resolved>>
batchVars == <<batch_messages, results, pending, curr_retry, batch_state, batch_log>>
citeVars == <<scored_df, cited, section_texts, summaries, cite_state>>
configVars == <<report_generation_args, api_key_arg, environ, lite, modal>>
costVars == <<step_results, cost_state, cost_pos, all_results, all_completion_costs,
              all_completion_models, reported, cost_result>>
unifiedVars == <<response_generator, unified_pc, requests, response, parsed_response,
                 reports>>
watchVars == <<wfile, processed_artifacts, processing_lock, wpc, wevent, wartifact,
               events_seen, reads, completed, read_failed, woutcome, second_call>>
pipelineVars == <<runVars, synthVars, quoteVars, batchVars, citeVars, configVars, costVars, watchVars, unifiedVars>>
vars == <<artifactVars, mergeVars, clock, editVars, pipelineVars>>

\* ------------------------------------------------------------ artifact nodes
MessageIds == {"m1", "m2"}
\* ids a caller may name as its target message; "m9" is in no thread
TargetIds == {"m1", "m9"}

\* an SQA_REPORT / STEP_PROGRESS node: artifact_writer.py:56-71
Node(id, ver, created, now, type, data) ==
    [id |-> id, version |-> ver, createdAt |-> created, updatedAt |-> now,
     type |-> type, data |-> data, children |-> <<>>]

\* a MESSAGE node; hasChildren = FALSE is a message dict without a 'children' key
Message(id, hasChildren, children) ==
    [id |-> id, type |-> "MESSAGE", hasChildren |-> hasChildren, children |-> children]

\* a THREAD node; hasVersion = FALSE is a thread dict without a 'version' key
Thread(hasVersion, ver, now, children) ==
    [id |-> "thread", type |-> "THREAD", hasVersion |-> hasVersion,
     version |-> ver, updatedAt |-> now, children |-> children]

\* a node some earlier run left in a message
Sibling == Node("report-t0", 1, 0, 0, "SQA_REPORT", <<"old">>)

InitTrees ==
    { Thread(hv, IF hv THEN InitVersion ELSE 0, 0, <<m, Message("m2", TRUE, <<>>)>>) :
        hv \in BOOLEAN,
        m \in { Message("m1", TRUE, <<>>), Message("m1", TRUE, <<Sibling>>),
                Message("m1", FALSE, <<>>) } }

\* child.get('children', [])
ChildrenOf(n) == IF n.hasChildren THEN n.children ELSE <<>>

\* updated.get('version', 1)
VersionOf(t) == IF t.hasVersion THEN t.version ELSE DefaultVersion

\* index of the first element of seq with this id, 0 when there is none:
\* the `for child in ...: if child.get('id') == ...` loops
FirstIndex(seq, id) ==
    IF \E i \in 1..Len(seq) : seq[i].id = id
    THEN CHOOSE i \in 1..Len(seq) :
            seq[i].id = id /\ \A j \in 1..(i - 1) : seq[j].id # id
    ELSE 0

find_message_in_thread(t, mid) == FirstIndex(t.children, mid)

get_report_from_message(t, mid, rid) ==
    LET mi == find_message_in_thread(t, mid)
    IN  IF mi = 0 THEN 0 ELSE FirstIndex(ChildrenOf(t.children[mi]), rid)

\* copy.deepcopy(thread_artifact): a new object holding an equal value
deepcopy_alias(t) == [ref |-> "arg", val |-> t]
deepcopy(t) == [ref |-> "copy", val |-> t]

\* `return updated`: the returned value, whether it is a new object, and the
\* value the argument object holds after the call
Returned(t, obj, val) ==
    [raised |-> FALSE, value |-> val, fresh |-> obj.ref # "arg",
     arg |-> IF obj.ref = "arg" THEN val ELSE t]

\* an exception leaves the function before anything was assigned
Raised(t, obj) ==
    [raised |-> TRUE, value |-> t, fresh |-> obj.ref # "arg", arg |-> t]

\* updated['version'] = updated.get('version', 1) + 1; updated['updatedAt'] = now
BumpNoIncrement(t, now) == [t EXCEPT !.updatedAt = now]
Bump(t, now) ==
    [t EXCEPT !.hasVersion = TRUE, !.version = VersionOf(t) + 1, !.updatedAt = now]

add_report_bump_on_miss(t, mid, r, now) ==
    LET upd == deepcopy(t)
        mi  == FirstIndex(upd.val.children, mid)
    IN  IF mi = 0
        THEN Returned(t, upd, Bump(upd.val, now))
        ELSE LET child == upd.val.children[mi]
             IN  IF FirstIndex(ChildrenOf(child), r.id) # 0
                 THEN Returned(t, upd, upd.val)
                 ELSE IF ~child.hasChildren
                 THEN Raised(t, upd)
                 ELSE Returned(t, upd,
                        Bump([upd.val EXCEPT !.children[mi].children = Append(@, r)],
                             now))

add_report_raise_on_miss(t, mid, r, now) ==
    LET upd == deepcopy(t)
        mi  == FirstIndex(upd.val.children, mid)
    IN  IF mi = 0
        THEN Raised(t, upd)
        ELSE LET child == upd.val.children[mi]
             IN  IF FirstIndex(ChildrenOf(child), r.id) # 0
                 THEN Returned(t, upd, upd.val)
                 ELSE IF ~child.hasChildren
                 THEN Raised(t, upd)
                 ELSE Returned(t, upd,
                        Bump([upd.val EXCEPT !.children[mi].children = Append(@, r)],
                             now))

add_report_to_message(t, mid, r, now) ==
    LET upd == deepcopy(t)
        mi  == FirstIndex(upd.val.children, mid)
    IN  IF mi = 0
        THEN Returned(t, upd, upd.val)                      \* for ... else: warning
        ELSE LET child == upd.val.children[mi]
             IN  IF FirstIndex(ChildrenOf(child), r.id) # 0
                 THEN Returned(t, upd, upd.val)             \* already there
                 ELSE IF ~child.hasChildren
                 THEN Raised(t, upd)                        \* child['children']: KeyError
                 ELSE Returned(t, upd,
                        Bump([upd.val EXCEPT !.children[mi].children = Append(@, r)],
                             now))

update_report_skip_equal(t, mid, r, now) ==
    LET upd == deepcopy(t)
        mi  == FirstIndex(upd.val.children, mid)
    IN  IF mi = 0
        THEN Returned(t, upd, upd.val)
        ELSE LET i == FirstIndex(ChildrenOf(upd.val.children[mi]), r.id)
             IN  IF i = 0 \/ ChildrenOf(upd.val.children[mi])[i] = r
                 THEN Returned(t, upd, upd.val)
                 ELSE Returned(t, upd,
                        Bump([upd.val EXCEPT !.children[mi].children[i] = r], now))

update_report_replace_children(t, mid, r, now) ==
    LET upd == deepcopy(t)
        mi  == FirstIndex(upd.val.children, mid)
    IN  IF mi = 0
        THEN Returned(t, upd, upd.val)
        ELSE LET i == FirstIndex(ChildrenOf(upd.val.children[mi]), r.id)
             IN  IF i = 0
                 THEN Returned(t, upd, upd.val)
                 ELSE Returned(t, upd,
                        Bump([upd.val EXCEPT !.children[mi].children = <<r>>], now))

update_report_in_message(t, mid, r, now) ==
    LET upd == deepcopy(t)
        mi  == FirstIndex(upd.val.children, mid)
    IN  IF mi = 0
        THEN Returned(t, upd, upd.val)                      \* for ... else: warning
        ELSE LET i == FirstIndex(ChildrenOf(upd.val.children[mi]), r.id)
             IN  IF i = 0
                 THEN Returned(t, upd, upd.val)             \* report not found
                 ELSE Returned(t, upd,
                        Bump([upd.val EXCEPT !.children[mi].children[i] = r], now))

\* the closure both writers hand to update_artifact
updater_add_only(t, mid, r, now) == add_report_to_message(t, mid, r, now)
updater_always_append(t, mid, r, now) ==
    LET upd == deepcopy(t)
        mi  == FirstIndex(upd.val.children, mid)
    IN  IF mi = 0 \/ ~upd.val.children[mi].hasChildren
        THEN add_report_to_message(t, mid, r, now)
        ELSE Returned(t, upd,
                Bump([upd.val EXCEPT !.children[mi].children = Append(@, r)], now))
updater(t, mid, r, now) ==
    IF get_report_from_message(t, mid, r.id) # 0
    THEN update_report_in_message(t, mid, r, now)
    ELSE add_report_to_message(t, mid, r, now)

\* ------------------------------------------------------- edit pipeline data
\* calls of step_execute_section_edit made in the SpecEdit model
MaxEditCalls == 3

\* models_edit.EditAction
EditActions == {"keep", "expand", "add_papers", "delete", "go_deeper", "replace", "modify"}

\* models.GeneratedSection; table "None" is no table
Section(title, tldr, text, citations, table) ==
    [title |-> title, tldr |-> tldr, text |-> text, citations |-> citations,
     table |-> table]
NoSection == Section("None", "None", "None", <<>>, "None")

\* models_edit.SectionEditPlan; specific_instruction "None" is None
SectionEditPlan(section_index, title, action, new_papers, specific_instruction) ==
    [section_index |-> section_index, section_title |-> title, action |-> action,
     reasoning |-> "because", new_papers |-> new_papers,
     specific_instruction |-> specific_instruction]

\* papers_data: the corpus ids that have paper data
papers_data == {2000}

\* what llm_completion does with a prompt: a response with this content, or raise
LlmOutcomes ==
    {[raises |-> FALSE, content |-> c] : c \in {"generated A", "generated B"}}
        \cup {[raises |-> TRUE, content |-> "None"]}

\* _format_section_references: the section's citations, then the new papers
\* that have paper data
SelectSeq2(seq, keep) ==
    LET F[i \in 0..Len(seq)] ==
            IF i = 0 THEN <<>>
            ELSE IF seq[i] \in keep THEN Append(F[i - 1], seq[i]) ELSE F[i - 1]
    IN  F[Len(seq)]
format_section_references_unfiltered(section, new_paper_ids, pdata) ==
    section.citations \o new_paper_ids
format_section_references(section, new_paper_ids, pdata) ==
    section.citations \o
        (IF new_paper_ids # <<>> /\ pdata # {} THEN SelectSeq2(new_paper_ids, pdata)
         ELSE <<>>)

\* _format_report_context: title and tldr of every section but the excluded one
\* (section indices count from 0)
format_report_context(sections, exclude_section_index) ==
    LET F[i \in 0..Len(sections)] ==
            IF i = 0 THEN <<>>
            ELSE IF i - 1 = exclude_section_index THEN F[i - 1]
            ELSE IF sections[i].tldr \in {"None", ""}                \* if section.tldr
            THEN Append(F[i - 1], <<sections[i].title>>)
            ELSE Append(F[i - 1], <<sections[i].title, sections[i].tldr>>)
    IN  F[Len(sections)]

GenerateEdit_table_kept(section, section_index, section_plan, full_report, pdata, llm) ==
    LET prompt ==
            [section_title |-> section.title,
             section_content |-> section.text,
             edit_action |-> section_plan.action,
             specific_instruction |->
                IF section_plan.specific_instruction \in {"None", ""}
                THEN section_plan.reasoning ELSE section_plan.specific_instruction,
             full_report_context |-> format_report_context(full_report, section_index),
             section_references |->
                format_section_references(section, section_plan.new_papers, pdata)]
    IN  IF llm.raises
        THEN [raised |-> TRUE, has_section |-> FALSE, section |-> NoSection,
              has_response |-> FALSE, response |-> "None", prompts |-> <<prompt>>]
        ELSE [raised |-> FALSE, has_section |-> TRUE,
              section |-> Section(section.title, section.tldr, llm.content,
                                  section.citations,
                                  section.table),
              has_response |-> TRUE, response |-> llm.content,
              prompts |-> <<prompt>>]

\* step_execute_section_edit, "for all other actions": one completion call, and
\* the edited section built from its content
GenerateEdit(section, section_index, section_plan, full_report, pdata, llm) ==
    LET prompt ==
            [section_title |-> section.title,
             section_content |-> section.text,
             edit_action |-> section_plan.action,
             specific_instruction |->
                IF section_plan.specific_instruction \in {"None", ""}
                THEN section_plan.reasoning ELSE section_plan.specific_instruction,
             full_report_context |-> format_report_context(full_report, section_index),
             section_references |->
                format_section_references(section, section_plan.new_papers, pdata)]
    IN  IF llm.raises
        THEN [raised |-> TRUE, has_section |-> FALSE, section |-> NoSection,
              has_response |-> FALSE, response |-> "None", prompts |-> <<prompt>>]
        ELSE [raised |-> FALSE, has_section |-> TRUE,
              section |-> Section(section.title, section.tldr, llm.content,
                                  section.citations,
                                  IF section_plan.action # "replace"
                                  THEN section.table ELSE "None"),
              has_response |-> TRUE, response |-> llm.content,
              prompts |-> <<prompt>>]

\* EditPipeline.step_execute_section_edit: (section or None, CompletionResult or
\* None), or an exception; prompts are the completion calls it made
step_execute_section_edit_no_keep(section, section_index, section_plan, full_report, pdata, llm) ==
    IF section_plan.action = "delete"
    THEN [raised |-> FALSE, has_section |-> FALSE, section |-> NoSection,
          has_response |-> FALSE, response |-> "None", prompts |-> <<>>]
    ELSE GenerateEdit(section, section_index, section_plan, full_report, pdata, llm)
step_execute_section_edit_no_delete(section, section_index, section_plan, full_report, pdata, llm) ==
    IF section_plan.action = "keep"
    THEN [raised |-> FALSE, has_section |-> TRUE, section |-> section,
          has_response |-> FALSE, response |-> "None", prompts |-> <<>>]
    ELSE GenerateEdit(section, section_index, section_plan, full_report, pdata, llm)
step_execute_section_edit_expand_kept(section, section_index, section_plan, full_report, pdata, llm) ==
    IF section_plan.action \in {"keep", "expand"}
    THEN [raised |-> FALSE, has_section |-> TRUE, section |-> section,
          has_response |-> FALSE, response |-> "None", prompts |-> <<>>]
    ELSE IF section_plan.action = "delete"
    THEN [raised |-> FALSE, has_section |-> FALSE, section |-> NoSection,
          has_response |-> FALSE, response |-> "None", prompts |-> <<>>]
    ELSE GenerateEdit(section, section_index, section_plan, full_report, pdata, llm)
step_execute_section_edit_swallow(section, section_index, section_plan, full_report, pdata, llm) ==
    IF section_plan.action = "keep"
    THEN [raised |-> FALSE, has_section |-> TRUE, section |-> section,
          has_response |-> FALSE, response |-> "None", prompts |-> <<>>]
    ELSE IF section_plan.action = "delete"
    THEN [raised |-> FALSE, has_section |-> FALSE, section |-> NoSection,
          has_response |-> FALSE, response |-> "None", prompts |-> <<>>]
    ELSE LET res == GenerateEdit(section, section_index, section_plan, full_report,
                                 pdata, llm)
         IN  IF res.raised
             THEN [res EXCEPT !.raised = FALSE, !.has_section = TRUE,
                              !.section = section]
             ELSE res
step_execute_section_edit_keep_drops(section, section_index, section_plan, full_report, pdata, llm) ==
    IF section_plan.action = "keep"
    THEN [raised |-> FALSE, has_section |-> FALSE, section |-> NoSection,
          has_response |-> FALSE, response |-> "None", prompts |-> <<>>]
    ELSE IF section_plan.action = "delete"
    THEN [raised |-> FALSE, has_section |-> FALSE, section |-> NoSection,
          has_response |-> FALSE, response |-> "None", prompts |-> <<>>]
    ELSE GenerateEdit(section, section_index, section_plan, full_report, pdata, llm)
step_execute_section_edit(section, section_index, section_plan, full_report, pdata, llm) ==
    IF section_plan.action = "keep"
    THEN [raised |-> FALSE, has_section |-> TRUE, section |-> section,
          has_response |-> FALSE, response |-> "None", prompts |-> <<>>]
    ELSE IF section_plan.action = "delete"
    THEN [raised |-> FALSE, has_section |-> FALSE, section |-> NoSection,
          has_response |-> FALSE, response |-> "None", prompts |-> <<>>]
    ELSE GenerateEdit(section, section_index, section_plan, full_report, pdata, llm)

\* --------------------------------------------- the other steps of a run
\* new sections a plan declares in the SpecRun model
MaxNewSections == 2

\* the strings a planning completion may give as an action: the values of
\* EditAction and the two names of the prompt directive that are none of them
\* (names are written in the lower-case spelling of the enum's values)
ActionStrings == EditActions \cup {"add_to", "new"}

\* papers_str: "None", or the ids joined
papers_str(mentioned) == [none |-> mentioned = <<>>, ids |-> mentioned]

\* _format_report_summary: per section its title, tldr, text preview and number
\* of citations (the texts of the model are shorter than 200 characters)
format_report_summary(sections) ==
    [i \in 1..Len(sections) |->
        <<sections[i].title, sections[i].tldr, sections[i].text,
          Len(sections[i].citations)>>]

\* _format_sections_summary: per section its index, title, tldr, number of
\* citations and the first five corpus ids
format_sections_summary(sections) ==
    [i \in 1..Len(sections) |->
        <<i - 1, sections[i].title, sections[i].tldr, Len(sections[i].citations),
          SubSeq(sections[i].citations, 1,
                 IF Len(sections[i].citations) < 5 THEN Len(sections[i].citations)
                 ELSE 5)>>]

\* models_edit.SearchDecision; search_query "None" is None
SearchDecision(needs_search, search_query) ==
    [needs_search |-> needs_search, search_query |-> search_query,
     reasoning |-> "because"]
NoDecision == SearchDecision(FALSE, "None")

\* response.content of the search-decision completion: text that is or is not
\* a JSON object, with or without the required keys
DecisionContent(valid_json, has_needs_search, has_reasoning, needs_search, search_query) ==
    [valid_json |-> valid_json, has_needs_search |-> has_needs_search,
     has_reasoning |-> has_reasoning, needs_search |-> needs_search,
     search_query |-> search_query]
DecisionContents ==
    { DecisionContent(TRUE, TRUE, TRUE, TRUE, "query"),
      DecisionContent(TRUE, TRUE, TRUE, FALSE, "None"),
      DecisionContent(FALSE, FALSE, FALSE, FALSE, "None"),
      DecisionContent(TRUE, TRUE, FALSE, TRUE, "query"),
      DecisionContent(TRUE, FALSE, TRUE, FALSE, "None") }
DecisionOutcomes ==
    {[raises |-> FALSE, content |-> c] : c \in DecisionContents}
        \cup {[raises |-> TRUE, content |-> DecisionContent(FALSE, FALSE, FALSE, FALSE, "None")]}

\* SearchDecision(**json.loads(response.content)) goes through
SearchDecisionParses(content) ==
    content.valid_json /\ content.has_needs_search /\ content.has_reasoning

\* EditPipeline.step_decide_search: (SearchDecision, CompletionResult) or an
\* exception
step_decide_search_default(full_report, edit_instruction, mentioned, llm) ==
    LET prompt == [current_report |-> format_report_summary(full_report),
                   edit_instruction |-> edit_instruction,
                   mentioned_papers |-> papers_str(mentioned)]
    IN  IF llm.raises \/ ~SearchDecisionParses(llm.content)
        THEN [raised |-> FALSE, has_decision |-> TRUE, decision |-> NoDecision,
              prompts |-> <<prompt>>]
        ELSE [raised |-> FALSE, has_decision |-> TRUE,
              decision |-> SearchDecision(llm.content.needs_search,
                                          llm.content.search_query),
              prompts |-> <<prompt>>]
step_decide_search(full_report, edit_instruction, mentioned, llm) ==
    LET prompt == [current_report |-> format_report_summary(full_report),
                   edit_instruction |-> edit_instruction,
                   mentioned_papers |-> papers_str(mentioned)]
    IN  IF llm.raises \/ ~SearchDecisionParses(llm.content)
        THEN [raised |-> TRUE, has_decision |-> FALSE, decision |-> NoDecision,
              prompts |-> <<prompt>>]
        ELSE [raised |-> FALSE, has_decision |-> TRUE,
              decision |-> SearchDecision(llm.content.needs_search,
                                          llm.content.search_query),
              prompts |-> <<prompt>>]

\* an entry of EditPlan.new_sections: a dict with 'title', 'position',
\* 'papers', 'instruction'
NewSectionDict(j) ==
    [title |-> "New Section " \o ToString(j), position |-> j,
     papers |-> IF j = 1 THEN <<2000, 3000>> ELSE <<>>,
     instruction |-> "write it"]
NewSectionLists == { [j \in 1..n |-> NewSectionDict(j)] : n \in 0..MaxNewSections }

\* models_edit.EditPlan
EditPlan(plans, news) == [cot |-> "thoughts", section_plans |-> plans, new_sections |-> news]
NoPlan == EditPlan(<<>>, <<>>)

\* response.content of the planning completion
PlanContent(valid_json, has_cot, has_section_plans, plans, news) ==
    [valid_json |-> valid_json, has_cot |-> has_cot,
     has_section_plans |-> has_section_plans, section_plans |-> plans,
     new_sections |-> news]

\* the section_plans a planning completion may give for a report: an entry per
\* section in the report's order, the same in reverse order, and lists that
\* leave a section out or name one twice (nothing in the schema excludes them)
PlanEntry(rep, i, action) ==
    SectionEditPlan(i, rep[i + 1].title, action,
                    IF i = 0 THEN <<2000, 3000>> ELSE <<>>, "None")
PlanEntrySeqs(rep) ==
    { <<PlanEntry(rep, 0, a1), PlanEntry(rep, 1, a2)>> :
        a1 \in ActionStrings, a2 \in ActionStrings }
    \cup { <<PlanEntry(rep, 1, a2), PlanEntry(rep, 0, a1)>> :
        a1 \in {"keep", "expand", "delete"}, a2 \in {"keep", "modify", "delete"} }
    \cup { <<PlanEntry(rep, i, a)>> : i \in {0, 1}, a \in {"keep", "replace", "delete"} }
    \cup { <<>>,
           <<PlanEntry(rep, 0, "expand"), PlanEntry(rep, 0, "keep")>>,
           <<PlanEntry(rep, 0, "delete"), PlanEntry(rep, 0, "go_deeper"),
             PlanEntry(rep, 1, "keep")>> }
PlanContents(rep) ==
    { PlanContent(TRUE, TRUE, TRUE, plans, news) :
        plans \in PlanEntrySeqs(rep), news \in NewSectionLists }
    \cup { PlanContent(FALSE, FALSE, FALSE, <<>>, <<>>),
           PlanContent(TRUE, FALSE, TRUE, <<PlanEntry(rep, 0, "keep")>>, <<>>),
           PlanContent(TRUE, TRUE, FALSE, <<>>, <<>>) }
PlanOutcomes(rep) ==
    {[raises |-> FALSE, content |-> c] : c \in PlanContents(rep)}
        \cup {[raises |-> TRUE, content |-> PlanContent(FALSE, FALSE, FALSE, <<>>, <<>>)]}

\* EditPlan(**json.loads(response.content)) goes through: a JSON object with
\* the required keys whose entries' actions are values of EditAction
EditPlanParses(content) ==
    /\ content.valid_json
    /\ content.has_cot
    /\ content.has_section_plans
    /\ \A i \in 1..Len(content.section_plans) :
          content.section_plans[i].action \in EditActions

\* EditPipeline.step_generate_edit_plan: (EditPlan, CompletionResult) or an
\* exception
step_generate_edit_plan_default(full_report, edit_instruction, mentioned, available_papers, llm) ==
    LET prompt == [report_title |-> "Test Report",
                   sections_summary |-> format_sections_summary(full_report),
                   edit_instruction |-> edit_instruction,
                   mentioned_papers |-> papers_str(mentioned),
                   available_papers |-> available_papers]
    IN  IF llm.raises \/ ~EditPlanParses(llm.content)
        THEN [raised |-> FALSE, has_plan |-> TRUE, plan |-> NoPlan,
              prompts |-> <<prompt>>]
        ELSE [raised |-> FALSE, has_plan |-> TRUE,
              plan |-> EditPlan(llm.content.section_plans, llm.content.new_sections),
              prompts |-> <<prompt>>]
step_generate_edit_plan(full_report, edit_instruction, mentioned, available_papers, llm) ==
    LET prompt == [report_title |-> "Test Report",
                   sections_summary |-> format_sections_summary(full_report),
                   edit_instruction |-> edit_instruction,
                   mentioned_papers |-> papers_str(mentioned),
                   available_papers |-> available_papers]
    IN  IF llm.raises \/ ~EditPlanParses(llm.content)
        THEN [raised |-> TRUE, has_plan |-> FALSE, plan |-> NoPlan,
              prompts |-> <<prompt>>]
        ELSE [raised |-> FALSE, has_plan |-> TRUE,
              plan |-> EditPlan(llm.content.section_plans, llm.content.new_sections),
              prompts |-> <<prompt>>]

\* EditPipeline.step_create_new_section: (GeneratedSection, CompletionResult)
\* or an exception
step_create_new_section(section_title, section_instruction, full_report, pdata, paper_ids, llm) ==
    LET prompt ==
            [full_report |-> format_report_summary(full_report),
             section_title |-> section_title,
             section_instruction |-> section_instruction,
             section_references |->
                IF paper_ids # <<>> /\ pdata # {}
                THEN [none |-> FALSE, refs |-> SelectSeq2(paper_ids, pdata)]
                ELSE [none |-> TRUE, refs |-> <<>>]]
    IN  IF llm.raises
        THEN [raised |-> TRUE, has_section |-> FALSE, section |-> NoSection,
              has_response |-> FALSE, response |-> "None", prompts |-> <<prompt>>]
        ELSE [raised |-> FALSE, has_section |-> TRUE,
              section |-> Section(section_title, "", llm.content, <<>>, "None"),
              has_response |-> TRUE, response |-> llm.content,
              prompts |-> <<prompt>>]

\* no unified report is being generated
NoResponse == [by |-> "none", content |-> "None"]
UnifiedIdle ==
    /\ response_generator = "None"
    /\ unified_pc = "idle"
    /\ requests = <<>>
    /\ response = NoResponse
    /\ parsed_response = NoResponse
    /\ reports = 0

\* the watcher is not running
NoArtifact == [kind |-> "none", data_is_dict |-> FALSE, type |-> "None", children |-> <<>>]
NoEvent == [kind |-> "none", is_directory |-> FALSE, src_path |-> <<>>]
WatchIdle ==
    /\ wfile = NoArtifact
    /\ processed_artifacts = {}
    /\ processing_lock = {}
    /\ wpc = "idle"
    /\ wevent = NoEvent
    /\ wartifact = NoArtifact
    /\ events_seen = 0
    /\ reads = 0
    /\ completed = {}
    /\ read_failed = {}
    /\ woutcome = "none"
    /\ second_call = "none"

\* no usage is being aggregated
NoCostResult == [result |-> <<>>, tot_cost |-> 0, models |-> <<>>]
CostIdle ==
    /\ step_results = <<>>
    /\ cost_state = "idle"
    /\ cost_pos = 0
    /\ all_results = <<>>
    /\ all_completion_costs = <<>>
    /\ all_completion_models = <<>>
    /\ reported = <<>>
    /\ cost_result = NoCostResult

\* nothing is being constructed
NoArgs == [given |-> FALSE, keys |-> {}]
NoInstance == [state |-> "none", report_generation_args |-> NoArgs, api_key |-> "None"]
ConfigIdle ==
    /\ report_generation_args = NoArgs
    /\ api_key_arg = "None"
    /\ environ = "None"
    /\ lite = NoInstance
    /\ modal = NoInstance

\* no response is being parsed
NoSummaries == [per_paper_summaries_extd |-> <<>>, quotes_metadata |-> <<>>]
CiteIdle ==
    /\ scored_df = <<>>
    /\ cited = <<>>
    /\ section_texts = <<>>
    /\ summaries = NoSummaries
    /\ cite_state = "idle"

\* no call of batch_llm_completion under way
BatchIdle ==
    /\ batch_messages = 0
    /\ results = <<>>
    /\ pending = <<>>
    /\ curr_retry = 0
    /\ batch_state = "idle"
    /\ batch_log = <<>>

\* the quote extractor is not running
QuotesIdle ==
    /\ quote_responses = <<>>
    /\ arrived = <<>>
    /\ per_paper_summaries = <<>>
    /\ quotes_state = "idle"
    /\ planner_input = <<>>
    /\ quote_plan = <<>>
    /\ resolved = <<>>

\* the synthesizer is not running
SynthIdle ==
    /\ plan_dimensions = <<>>
    /\ dim_index = 0
    /\ already_written = <<>>
    /\ yielded = <<>>
    /\ synth_log = <<>>

\* no run of the pipeline under way
NoFinalReport == [has |-> FALSE, sections |-> <<>>]
PipelineIdle ==
    /\ run_state = "idle"
    /\ mentioned_papers = <<>>
    /\ decision = [has |-> FALSE, value |-> NoDecision]
    /\ edit_plan = [has |-> FALSE, value |-> NoPlan]
    /\ edited_sections = <<>>
    /\ created_sections = <<>>
    /\ calls = <<>>
    /\ final_report = NoFinalReport
    /\ SynthIdle
    /\ QuotesIdle
    /\ BatchIdle
    /\ UnifiedIdle
    /\ WatchIdle
    /\ CostIdle
    /\ ConfigIdle
    /\ CiteIdle

NoEditCall ==
    [section_index |-> 0, section |-> NoSection,
     section_plan |-> SectionEditPlan(0, "None", "keep", <<>>, "None")]
NoEditResult ==
    [raised |-> FALSE, has_section |-> FALSE, section |-> NoSection,
     has_response |-> FALSE, response |-> "None", prompts |-> <<>>]
NoEditCalls ==
    /\ edit_count = 0
    /\ llm_log = <<>>
    /\ edit_call = NoEditCall
    /\ edit_result = NoEditResult
NoEditRun ==
    /\ current_report = <<>>
    /\ section_plans = <<>>
    /\ NoEditCalls
    /\ PipelineIdle

\* ------------------------------------------------------------------ SpecMerge
\* nodes handed to the merge functions
MergeNodes ==
    { Node("report-t1", 1, 0, 1, "SQA_REPORT", <<"sec1">>),
      Node("report-t1", 2, 0, 2, "SQA_REPORT", <<"sec1", "sec2">>),
      Node("progress-t1", 1, 0, 1, "STEP_PROGRESS", <<"step1">>),
      Node("report-t0", 2, 0, 2, "SQA_REPORT", <<"new">>) }

NoTree == Thread(FALSE, 0, 0, <<>>)
NoCall == [op |-> "none", message_id |-> "m9", report |-> Sibling]

\* the state the writers of Spec are constructed in
Writers == {"w1", "w2"}
NoFile(kind) == [kind |-> kind, tree |-> NoTree]
TreeFile(t) == [kind |-> "tree", tree |-> t]

WritersConstructed ==
    /\ tmp = [w \in Writers |-> "none"]
    /\ pc = [w \in Writers |-> "idle"]
    /\ obj_version = [w \in Writers |-> 0]
    /\ steps = [w \in Writers |-> <<>>]
    /\ report = [w \in Writers |-> Sibling]
    /\ artifact = [w \in Writers |-> NoTree]
    /\ updated = [w \in Writers |-> NoTree]
    /\ called = [w \in Writers |-> FALSE]
    /\ success = [w \in Writers |-> "none"]
    /\ merged = [w \in Writers |-> 0]

NoMergeCall ==
    /\ mBefore = mTree
    /\ mArg = mTree
    /\ mResult = Returned(mTree, deepcopy(mTree), mTree)
    /\ mCall = NoCall
    /\ mCount = 0

InitMerge ==
    /\ mTree \in InitTrees
    /\ NoMergeCall
    /\ clock = 1
    /\ file = TreeFile(mTree)
    /\ file0 = file
    /\ message_id = [w \in Writers |-> "m1"]
    /\ WritersConstructed
    /\ NoEditRun

\* one call op(mTree, mid, r) at time `clock`; the next call is given the result
MergeCalled(op, mid, r, res) ==
    /\ mCount < MaxMergeCalls
    /\ mBefore' = mTree
    /\ mResult' = res
    /\ mArg' = res.arg
    /\ mTree' = IF res.raised THEN res.arg ELSE res.value
    /\ mCall' = [op |-> op, message_id |-> mid, report |-> r]
    /\ mCount' = mCount + 1
    /\ clock' = clock + 1
    /\ UNCHANGED <<artifactVars, editVars, pipelineVars>>

CallAdd ==
    \E mid \in TargetIds \cup MessageIds, r \in MergeNodes :
        MergeCalled("add", mid, r, add_report_to_message(mTree, mid, r, clock))

CallUpdate ==
    \E mid \in TargetIds \cup MessageIds, r \in MergeNodes :
        MergeCalled("update", mid, r, update_report_in_message(mTree, mid, r, clock))

CallUpdater ==
    \E mid \in TargetIds \cup MessageIds, r \in MergeNodes :
        MergeCalled("updater", mid, r, updater(mTree, mid, r, clock))

NextMerge == CallAdd \/ CallUpdate \/ CallUpdater

SpecMerge == InitMerge /\ [][NextMerge]_vars

\* ----------------------------------------------------------------------- Spec
\* w1 is a ThreadArtifactUpdater, w2 a ProgressArtifactUpdater, both of task t1
IsReportWriter(w) == w = "w1"
\* self.report_id = f"report-{task_id}" / self.progress_id = f"progress-{task_id}"
NodeId(w) == IF IsReportWriter(w) THEN "report-t1" ELSE "progress-t1"

\* json_summary arguments of write_artifact (an opaque payload: the node's
\* version tells one call's report from the next), step_message arguments of
\* add_step
Summaries == {<<"sec1", "sec2">>}
StepMessages == {"step1", "step2"}

Init ==
    /\ file \in {TreeFile(t) : t \in InitTrees} \cup {NoFile("missing"), NoFile("unreadable")}
    /\ file0 = file
    /\ message_id \in [Writers -> TargetIds]
    /\ WritersConstructed
    /\ clock = 1
    /\ mTree = NoTree
    /\ NoMergeCall
    /\ NoEditRun

\* datetime.now(timezone.utc).isoformat() read by writer w. No step of a writer
\* compares time stamps, so in Spec a stamp is abstracted to the number of the
\* writer's call that read the clock (SpecMerge keeps a clock that advances)
Now(w) == obj_version[w]

\* a writer call up to update_artifact: the version counter and the node
BeginCall(w, node) ==
    /\ pc[w] = "idle"
    /\ obj_version[w] < MaxCalls
    /\ obj_version' = [obj_version EXCEPT ![w] = @ + 1]
    /\ report' = [report EXCEPT ![w] = node]
    /\ called' = [called EXCEPT ![w] = FALSE]
    /\ success' = [success EXCEPT ![w] = "none"]
    /\ pc' = [pc EXCEPT ![w] = "read"]
    /\ UNCHANGED <<file, file0, tmp, message_id, artifact, updated, merged, clock,
                   mergeVars, editVars, pipelineVars>>

\* ThreadArtifactUpdater.write_artifact up to the call of update_artifact
write_artifact_begin(w) ==
    /\ IsReportWriter(w)
    /\ \E json_summary \in Summaries :
         BeginCall(w, Node(NodeId(w), obj_version[w] + 1, 0, Now(w) + 1,
                           "SQA_REPORT", json_summary))
    /\ UNCHANGED steps

\* ProgressArtifactUpdater.add_step and _write_progress_artifact up to the call
\* of update_artifact
add_step_last_only(w) ==
    /\ ~IsReportWriter(w)
    /\ \E step_message \in StepMessages :
         /\ steps' = [steps EXCEPT ![w] = Append(@, step_message)]
         /\ BeginCall(w, Node(NodeId(w), obj_version[w] + 1, 0, Now(w) + 1,
                              "STEP_PROGRESS", <<step_message>>))
add_step(w) ==
    /\ ~IsReportWriter(w)
    /\ \E step_message \in StepMessages :
         /\ steps' = [steps EXCEPT ![w] = Append(@, step_message)]
         /\ BeginCall(w, Node(NodeId(w), obj_version[w] + 1, 0, Now(w) + 1,
                              "STEP_PROGRESS", Append(steps[w], step_message)))

\* the tree t holds writer w's current node under w's message
HoldsNode(t, w) ==
    LET mi == find_message_in_thread(t, message_id[w])
        i  == get_report_from_message(t, message_id[w], report[w].id)
    IN  i # 0 /\ ChildrenOf(t.children[mi])[i] = report[w]

\* update_artifact returns to the writer, which logs and returns None
ReturnToWriter(w, ok) ==
    /\ success' = [success EXCEPT ![w] = IF ok THEN "True" ELSE "False"]
    /\ pc' = [pc EXCEPT ![w] = "idle"]
    /\ report' = [report EXCEPT ![w] = Sibling]
    /\ artifact' = [artifact EXCEPT ![w] = NoTree]
    /\ updated' = [updated EXCEPT ![w] = NoTree]

\* read_artifact: the tree, or None when the file is missing or does not load
read_artifact_default_tree(f) ==
    IF f.kind = "tree" THEN [none |-> FALSE, tree |-> f.tree]
    ELSE [none |-> FALSE, tree |-> Thread(TRUE, DefaultVersion, 0, <<>>)]
read_artifact(f) ==
    IF f.kind = "tree" THEN [none |-> FALSE, tree |-> f.tree]
    ELSE [none |-> TRUE, tree |-> NoTree]

\* update_artifact: artifact = self.read_artifact(artifact_id); None => False
update_artifact_read(w) ==
    /\ pc[w] = "read"
    /\ LET got == read_artifact(file)
       IN  IF got.none
           THEN ReturnToWriter(w, FALSE)
           ELSE /\ artifact' = [artifact EXCEPT ![w] = got.tree]
                /\ pc' = [pc EXCEPT ![w] = "updater"]
                /\ UNCHANGED <<success, report, updated>>
    /\ UNCHANGED <<file, file0, tmp, message_id, obj_version, steps,
                   called, merged, clock, mergeVars, editVars, pipelineVars>>

\* update_artifact: updated_artifact = updater(artifact), an exception => False
update_artifact_updater_uncaught(w) ==
    /\ pc[w] = "updater"
    /\ LET res == updater(artifact[w], message_id[w], report[w], Now(w))
       IN  IF res.raised
           THEN /\ pc' = [pc EXCEPT ![w] = "raised"]
                /\ UNCHANGED <<success, report, artifact, updated>>
           ELSE /\ artifact' = [artifact EXCEPT ![w] = res.arg]
                /\ updated' = [updated EXCEPT ![w] = res.value]
                /\ pc' = [pc EXCEPT ![w] = "mkstemp"]
                /\ UNCHANGED <<success, report>>
    /\ called' = [called EXCEPT ![w] = TRUE]
    /\ UNCHANGED <<file, file0, tmp, message_id, obj_version, steps,
                   merged, clock, mergeVars, editVars, pipelineVars>>
update_artifact_updater(w) ==
    /\ pc[w] = "updater"
    /\ LET res == updater(artifact[w], message_id[w], report[w], Now(w))
       IN  IF res.raised
           THEN ReturnToWriter(w, FALSE)
           ELSE /\ artifact' = [artifact EXCEPT ![w] = res.arg]
                /\ updated' = [updated EXCEPT ![w] = res.value]
                /\ pc' = [pc EXCEPT ![w] = "mkstemp"]
                /\ UNCHANGED <<success, report>>
    /\ called' = [called EXCEPT ![w] = TRUE]
    /\ UNCHANGED <<file, file0, tmp, message_id, obj_version, steps,
                   merged, clock, mergeVars, editVars, pipelineVars>>

\* write_artifact: mkdir and tempfile.mkstemp(dir=file_path.parent, prefix='.tmp_')
write_artifact_mkstemp(w) ==
    /\ pc[w] = "mkstemp"
    /\ tmp' = [tmp EXCEPT ![w] = "empty"]
    /\ pc' = [pc EXCEPT ![w] = "dump"]
    /\ UNCHANGED <<file, file0, message_id, obj_version, steps, report, artifact,
                   updated, called, success, merged, clock, mergeVars, editVars, pipelineVars>>

\* write_artifact: json.dump(artifact, f) has written a part of the tree
write_artifact_dump_in_place(w) ==
    /\ pc[w] = "dump"
    /\ file' = [kind |-> "partial", tree |-> updated[w]]
    /\ pc' = [pc EXCEPT ![w] = "dumping"]
    /\ UNCHANGED <<file0, tmp, message_id, obj_version, steps, report, artifact,
                   updated, called, success, merged, clock, mergeVars, editVars, pipelineVars>>
write_artifact_dump(w) ==
    /\ pc[w] = "dump"
    /\ tmp' = [tmp EXCEPT ![w] = "partial"]
    /\ pc' = [pc EXCEPT ![w] = "dumping"]
    /\ UNCHANGED <<file, file0, message_id, obj_version, steps, report, artifact,
                   updated, called, success, merged, clock, mergeVars, editVars, pipelineVars>>

\* write_artifact: json.dump is through and the temp file is closed
write_artifact_dumped(w) ==
    /\ pc[w] = "dumping"
    /\ tmp' = [tmp EXCEPT ![w] = "full"]
    /\ pc' = [pc EXCEPT ![w] = "move"]
    /\ UNCHANGED <<file, file0, message_id, obj_version, steps, report, artifact,
                   updated, called, success, merged, clock, mergeVars, editVars, pipelineVars>>

\* write_artifact: shutil.move(temp_path, file_path), a rename inside one
\* directory, then return True
write_artifact_move_merge(w) ==
    /\ pc[w] = "move"
    /\ file' = IF file.kind = "tree"
               THEN LET res == updater(file.tree, message_id[w], report[w], Now(w))
                    IN  TreeFile(IF res.raised THEN file.tree ELSE res.value)
               ELSE TreeFile(updated[w])
    /\ tmp' = [tmp EXCEPT ![w] = "none"]
    /\ merged' = [merged EXCEPT ![w] = IF HoldsNode(updated[w], w) THEN @ + 1 ELSE @]
    /\ ReturnToWriter(w, TRUE)
    /\ UNCHANGED <<file0, message_id, obj_version, steps, called, clock, mergeVars, editVars, pipelineVars>>
write_artifact_move(w) ==
    /\ pc[w] = "move"
    /\ file' = TreeFile(updated[w])
    /\ tmp' = [tmp EXCEPT ![w] = "none"]
    /\ merged' = [merged EXCEPT ![w] = IF HoldsNode(updated[w], w) THEN @ + 1 ELSE @]
    /\ ReturnToWriter(w, TRUE)
    /\ UNCHANGED <<file0, message_id, obj_version, steps, called, clock, mergeVars, editVars, pipelineVars>>

\* write_artifact: any step raises; the temp file is unlinked, False is returned
write_artifact_error(w) ==
    /\ pc[w] \in {"mkstemp", "dump", "dumping", "move"}
    /\ tmp' = [tmp EXCEPT ![w] = "none"]
    /\ ReturnToWriter(w, FALSE)
    /\ UNCHANGED <<file, file0, message_id, obj_version, steps, called,
                   merged, clock, mergeVars, editVars, pipelineVars>>

\* the run is abandoned while the write is under way: nothing more is executed,
\* the temp file stays as it is
abandon(w) ==
    /\ pc[w] \in {"mkstemp", "dump", "dumping", "move"}
    /\ pc' = [pc EXCEPT ![w] = "abandoned"]
    /\ report' = [report EXCEPT ![w] = Sibling]
    /\ artifact' = [artifact EXCEPT ![w] = NoTree]
    /\ updated' = [updated EXCEPT ![w] = NoTree]
    /\ UNCHANGED <<file, file0, tmp, message_id, obj_version, steps,
                   called, success, merged, clock, mergeVars, editVars, pipelineVars>>

Next ==
    \E w \in Writers :
        \/ write_artifact_begin(w)
        \/ add_step(w)
        \/ update_artifact_read(w)
        \/ update_artifact_updater(w)
        \/ write_artifact_mkstemp(w)
        \/ write_artifact_dump(w)
        \/ write_artifact_dumped(w)
        \/ write_artifact_move(w)
        \/ write_artifact_error(w)
        \/ abandon(w)

Spec == Init /\ [][Next]_vars

\* ------------------------------------------------------------------- SpecEdit
\* the report under edit: two sections, the first with a citation
EditReports ==
    { <<Section("Section 1", "tldr 1", "text A", <<1000>>, table),
        Section("Section 2", "", "text B", <<>>, "None")>> :
        table \in {"None", "table 1"} }

\* a plan with one entry per section of the report, in the report's order
EditPlansFor(rep) ==
    { <<SectionEditPlan(0, rep[1].title, a1, np, si),
        SectionEditPlan(1, rep[2].title, a2, np2, "None")>> :
        a1 \in EditActions, a2 \in EditActions,
        np \in {<<>>, <<2000, 3000>>}, np2 \in {<<>>, <<2000>>},
        si \in {"None", "do this"} }

InitEdit ==
    /\ current_report \in EditReports
    /\ section_plans \in EditPlansFor(current_report)
    /\ NoEditCalls
    /\ PipelineIdle
    /\ clock = 1
    /\ mTree = NoTree
    /\ NoMergeCall
    /\ file = NoFile("missing")
    /\ file0 = file
    /\ message_id = [w \in Writers |-> "m1"]
    /\ WritersConstructed

\* one call of step_execute_section_edit for an entry of the plan
ExecuteSectionEdit ==
    \E k \in 1..Len(section_plans), llm \in LlmOutcomes :
        LET section_plan == section_plans[k]
            section == current_report[section_plan.section_index + 1]
            res == step_execute_section_edit(section, section_plan.section_index,
                        section_plan, current_report, papers_data, llm)
        IN  /\ edit_count < MaxEditCalls
            /\ ~edit_result.raised
            /\ edit_count' = edit_count + 1
            /\ edit_call' = [section_index |-> section_plan.section_index,
                             section |-> section, section_plan |-> section_plan]
            /\ edit_result' = res
            /\ llm_log' = llm_log \o res.prompts
            /\ UNCHANGED <<current_report, section_plans, artifactVars, mergeVars, clock,
                           pipelineVars>>

NextEdit == ExecuteSectionEdit

SpecEdit == InitEdit /\ [][NextEdit]_vars

\* -------------------------------------------------------------------- SpecRun
\* run_edit_pipeline(current_report, edit_instruction, mentioned_paper_ids): the
\* stages DECIDE_SEARCH -> GENERATE_PLAN -> APPLY_SECTION_EDITS -> ASSEMBLE,
\* each stage calling the step of EditPipeline that does its work; an exception
\* of a step leaves the run
edit_instruction == "add more detail"
MentionedPapers == {<<>>, <<2000>>}

\* the paper data the steps of the run are given
RunPapers ==
    IF decision.value.needs_search \/ mentioned_papers # <<>> THEN papers_data ELSE {}

\* a completion call of the run and what the completion did
Call(stage, target, llm) == [stage |-> stage, target |-> target, llm |-> llm]

\* what a section of the report stands as: as it came, until its step has run
Untouched(section) == [stepped |-> FALSE, has_section |-> TRUE, section |-> section]
Stepped(res) == [stepped |-> TRUE, has_section |-> res.has_section, section |-> res.section]

InitRun ==
    /\ current_report \in EditReports
    /\ section_plans = <<>>
    /\ NoEditCalls
    /\ run_state = "DECIDE_SEARCH"
    /\ mentioned_papers \in MentionedPapers
    /\ decision = [has |-> FALSE, value |-> NoDecision]
    /\ edit_plan = [has |-> FALSE, value |-> NoPlan]
    /\ edited_sections = [i \in 1..Len(current_report) |-> Untouched(current_report[i])]
    /\ created_sections = <<>>
    /\ calls = <<>>
    /\ final_report = NoFinalReport
    /\ SynthIdle
    /\ QuotesIdle
    /\ BatchIdle
    /\ UnifiedIdle
    /\ WatchIdle
    /\ CostIdle
    /\ ConfigIdle
    /\ CiteIdle
    /\ clock = 1
    /\ mTree = NoTree
    /\ NoMergeCall
    /\ file = NoFile("missing")
    /\ file0 = file
    /\ message_id = [w \in Writers |-> "m1"]
    /\ WritersConstructed

\* DECIDE_SEARCH: step_decide_search
DecideSearch ==
    /\ run_state = "DECIDE_SEARCH"
    /\ \E llm \in DecisionOutcomes :
         LET res == step_decide_search(current_report, edit_instruction,
                                       mentioned_papers, llm)
         IN  /\ calls' = Append(calls, Call("DECIDE_SEARCH", 0, llm))
             /\ IF res.raised
                THEN run_state' = "FAILED" /\ UNCHANGED decision
                ELSE /\ decision' = [has |-> TRUE, value |-> res.decision]
                     /\ run_state' = "GENERATE_PLAN"
    /\ UNCHANGED <<mentioned_papers, edit_plan, edited_sections, created_sections,
                   final_report, editVars, artifactVars, mergeVars, clock, synthVars, quoteVars,
                   batchVars, citeVars, configVars, costVars, watchVars, unifiedVars>>

\* GENERATE_PLAN: step_generate_edit_plan
GeneratePlan ==
    /\ run_state = "GENERATE_PLAN"
    /\ \E llm \in PlanOutcomes(current_report) :
         LET res == step_generate_edit_plan(current_report, edit_instruction,
                                            mentioned_papers, RunPapers, llm)
         IN  /\ calls' = Append(calls, Call("GENERATE_PLAN", 0, llm))
             /\ IF res.raised
                THEN run_state' = "FAILED" /\ UNCHANGED edit_plan
                ELSE /\ edit_plan' = [has |-> TRUE, value |-> res.plan]
                     /\ run_state' = "APPLY_SECTION_EDITS"
    /\ UNCHANGED <<mentioned_papers, decision, edited_sections, created_sections,
                   final_report, editVars, artifactVars, mergeVars, clock, synthVars, quoteVars,
                   batchVars, citeVars, configVars, costVars, watchVars, unifiedVars>>

\* APPLY_SECTION_EDITS: step_execute_section_edit for the next entry of the plan
ApplySectionEdit ==
    /\ run_state = "APPLY_SECTION_EDITS"
    /\ edit_count < Len(edit_plan.value.section_plans)
    /\ \E llm \in LlmOutcomes :
         LET section_plan == edit_plan.value.section_plans[edit_count + 1]
             section == current_report[section_plan.section_index + 1]
             res == step_execute_section_edit(section, section_plan.section_index,
                        section_plan, current_report, RunPapers, llm)
         IN  /\ edit_count' = edit_count + 1
             /\ edit_call' = [section_index |-> section_plan.section_index,
                              section |-> section, section_plan |-> section_plan]
             /\ edit_result' = res
             /\ llm_log' = llm_log \o res.prompts
             /\ calls' = IF res.prompts = <<>> THEN calls
                         ELSE Append(calls, Call("APPLY_SECTION_EDITS",
                                                 section_plan.section_index, llm))
             /\ IF res.raised
                THEN run_state' = "FAILED" /\ UNCHANGED edited_sections
                ELSE /\ edited_sections' =
                          [edited_sections EXCEPT ![section_plan.section_index + 1] =
                              Stepped(res)]
                     /\ UNCHANGED run_state
    /\ UNCHANGED <<mentioned_papers, decision, edit_plan, created_sections,
                   final_report, current_report, section_plans, artifactVars,
                   mergeVars, clock, synthVars, quoteVars,
                   batchVars, citeVars, configVars, costVars, watchVars, unifiedVars>>

\* APPLY_SECTION_EDITS: step_create_new_section for the next new section of the
\* plan, once every entry of the plan has had its step
CreateNewSection ==
    /\ run_state = "APPLY_SECTION_EDITS"
    /\ edit_count = Len(edit_plan.value.section_plans)
    /\ Len(created_sections) < Len(edit_plan.value.new_sections)
    /\ \E llm \in LlmOutcomes :
         LET new_section == edit_plan.value.new_sections[Len(created_sections) + 1]
             res == step_create_new_section(new_section.title, new_section.instruction,
                        current_report, RunPapers, new_section.papers, llm)
         IN  /\ calls' = Append(calls, Call("CREATE_NEW_SECTION",
                                            Len(created_sections), llm))
             /\ IF res.raised
                THEN run_state' = "FAILED" /\ UNCHANGED created_sections
                ELSE /\ created_sections' = Append(created_sections, res.section)
                     /\ UNCHANGED run_state
    /\ UNCHANGED <<mentioned_papers, decision, edit_plan, edited_sections,
                   final_report, editVars, artifactVars, mergeVars, clock, synthVars, quoteVars,
                   batchVars, citeVars, configVars, costVars, watchVars, unifiedVars>>

\* every section step and every creation has returned: on to ASSEMBLE
SectionEditsDone ==
    /\ run_state = "APPLY_SECTION_EDITS"
    /\ edit_count = Len(edit_plan.value.section_plans)
    /\ Len(created_sections) = Len(edit_plan.value.new_sections)
    /\ run_state' = "ASSEMBLE"
    /\ UNCHANGED <<mentioned_papers, decision, edit_plan, edited_sections,
                   created_sections, calls, final_report, editVars, artifactVars,
                   mergeVars, clock, synthVars, quoteVars,
                   batchVars, citeVars, configVars, costVars, watchVars, unifiedVars>>

\* ASSEMBLE: the sections that stand, in the report's order, then the new ones
Surviving(slots) ==
    LET F[i \in 0..Len(slots)] ==
            IF i = 0 THEN <<>>
            ELSE IF slots[i].has_section THEN Append(F[i - 1], slots[i].section)
            ELSE F[i - 1]
    IN  F[Len(slots)]
Assemble ==
    /\ run_state = "ASSEMBLE"
    /\ final_report' = [has |-> TRUE,
                        sections |-> Surviving(edited_sections) \o created_sections]
    /\ run_state' = "DONE"
    /\ UNCHANGED <<mentioned_papers, decision, edit_plan, edited_sections,
                   created_sections, calls, editVars, artifactVars, mergeVars, clock, synthVars, quoteVars,
                   batchVars, citeVars, configVars, costVars, watchVars, unifiedVars>>

NextRun ==
    \/ DecideSearch
    \/ GeneratePlan
    \/ ApplySectionEdit
    \/ CreateNewSection
    \/ SectionEditsDone
    \/ Assemble

SpecRun == InitRun /\ [][NextRun]_vars

\* ------------------------------------------------------------------ SpecSynth
\* the section synthesizer in edit mode (generate_iterative_summary_edit): a
\* fold over the dimensions of the plan, in plan order, that yields the
\* sections of the edited report
\* dimensions of a plan in the SpecSynth model
MaxDimensions == 3

\* a text is a sequence of tokens, words and citation markers
Cite1 == "[1000 | A | 2024 | Citations: 3]"
CitationMarkers == {Cite1, "[LLM MEMORY | 2024]"}
\* a text with its citation markers taken out
strip_citations(text) ==
    LET F[i \in 0..Len(text)] ==
            IF i = 0 THEN <<>>
            ELSE IF text[i] \in CitationMarkers THEN F[i - 1]
            ELSE Append(F[i - 1], text[i])
    IN  F[Len(text)]

\* the report under edit and the quotes of the run, in index order
SynthReport ==
    <<Section("Section 1", "tldr 1", <<"old", "one", Cite1>>, <<1000>>, "None"),
      Section("Section 2", "", <<"old", "two">>, <<>>, "None")>>
per_paper_summaries_extd == <<"quote 0", "quote 1">>

\* a dimension of the plan: name, format, quote indices, action
Dimension(name, quotes, action) ==
    [name |-> name, format |-> "synthesis", quotes |-> quotes, action |-> action]
\* the k-th name a plan may carry: the report's sections, then new ones
DimensionName(k) ==
    IF k <= Len(SynthReport) THEN SynthReport[k].title
    ELSE "New Section " \o ToString(k)
\* plans: the sections of the report in the report's order or with the first
\* two exchanged, each with an action for an existing section, then new
\* sections; index 7 is no index of a quote
SynthPlans ==
    { [k \in 1..n |->
          LET at == IF swap /\ k <= 2 /\ n >= 2 THEN 3 - k ELSE k
          IN  IF at <= Len(SynthReport)
              THEN Dimension(DimensionName(at),
                             IF a[k] = "KEEP" THEN <<>> ELSE <<at - 1, 7>>, a[k])
              ELSE Dimension(DimensionName(at), <<1>>, "NEW")] :
        n \in 1..MaxDimensions, swap \in BOOLEAN,
        a \in [1..MaxDimensions -> {"KEEP", "EXPAND", "ADD_TO", "REPLACE", "DELETE"}] }
SynthOutcomes ==
    {[raises |-> FALSE, content |-> c] : c \in {<<"alpha", Cite1>>, <<"beta">>}}
        \cup {[raises |-> TRUE, content |-> <<>>]}

\* the text the report has under this name, empty when it has no such section
current_section_content(full_report, name) ==
    IF \E i \in 1..Len(full_report) : full_report[i].title = name
    THEN full_report[CHOOSE i \in 1..Len(full_report) : full_report[i].title = name].text
    ELSE <<>>
\* the quotes of these indices; an index out of range is skipped
section_references(quotes, indices) ==
    LET F[i \in 0..Len(indices)] ==
            IF i = 0 THEN <<>>
            ELSE IF indices[i] + 1 \in 1..Len(quotes)
                 THEN Append(F[i - 1], quotes[indices[i] + 1]) ELSE F[i - 1]
    IN  F[Len(indices)]

\* one dimension of the plan: KEEP gives the existing text without a call,
\* DELETE gives nothing without a call, every other action makes one completion
\* call whose raw text is the section's body; the text of a section that was
\* written joins the already-written context
synthesize_section_no_append(dimension, full_report, plan, quotes, already, llm) ==
    LET content == current_section_content(full_report, dimension.name)
        prompt == [plan |-> plan, already_written |-> already,
                   section_name |-> dimension.name,
                   current_section_content |-> content,
                   action |-> dimension.action,
                   section_references |-> section_references(quotes, dimension.quotes),
                   llm |-> llm]
    IN  IF dimension.action = "KEEP"
        THEN [raised |-> FALSE, yields |-> TRUE, text |-> content, prompts |-> <<>>,
              already_written |-> already]
        ELSE IF dimension.action = "DELETE"
        THEN [raised |-> FALSE, yields |-> FALSE, text |-> <<>>, prompts |-> <<>>,
              already_written |-> already]
        ELSE IF llm.raises
        THEN [raised |-> TRUE, yields |-> FALSE, text |-> <<>>, prompts |-> <<prompt>>,
              already_written |-> already]
        ELSE [raised |-> FALSE, yields |-> TRUE, text |-> llm.content,
              prompts |-> <<prompt>>, already_written |-> already]
synthesize_section(dimension, full_report, plan, quotes, already, llm) ==
    LET content == current_section_content(full_report, dimension.name)
        prompt == [plan |-> plan, already_written |-> already,
                   section_name |-> dimension.name,
                   current_section_content |-> content,
                   action |-> dimension.action,
                   section_references |-> section_references(quotes, dimension.quotes),
                   llm |-> llm]
    IN  IF dimension.action = "KEEP"
        THEN [raised |-> FALSE, yields |-> TRUE, text |-> content, prompts |-> <<>>,
              already_written |-> Append(already, strip_citations(content))]
        ELSE IF dimension.action = "DELETE"
        THEN [raised |-> FALSE, yields |-> FALSE, text |-> <<>>, prompts |-> <<>>,
              already_written |-> already]
        ELSE IF llm.raises
        THEN [raised |-> TRUE, yields |-> FALSE, text |-> <<>>, prompts |-> <<prompt>>,
              already_written |-> already]
        ELSE [raised |-> FALSE, yields |-> TRUE, text |-> llm.content,
              prompts |-> <<prompt>>,
              already_written |-> Append(already, strip_citations(llm.content))]

InitSynth ==
    /\ current_report = SynthReport
    /\ section_plans = <<>>
    /\ NoEditCalls
    /\ plan_dimensions \in SynthPlans
    /\ dim_index = 0
    /\ already_written = <<>>
    /\ yielded = <<>>
    /\ synth_log = <<>>
    /\ QuotesIdle
    /\ BatchIdle
    /\ UnifiedIdle
    /\ WatchIdle
    /\ CostIdle
    /\ ConfigIdle
    /\ CiteIdle
    /\ run_state = "idle"
    /\ mentioned_papers = <<>>
    /\ decision = [has |-> FALSE, value |-> NoDecision]
    /\ edit_plan = [has |-> FALSE, value |-> NoPlan]
    /\ edited_sections = <<>>
    /\ created_sections = <<>>
    /\ calls = <<>>
    /\ final_report = NoFinalReport
    /\ clock = 1
    /\ mTree = NoTree
    /\ NoMergeCall
    /\ file = NoFile("missing")
    /\ file0 = file
    /\ message_id = [w \in Writers |-> "m1"]
    /\ WritersConstructed

\* a completion of the synthesizer has failed: the generator raised
SynthFailed == synth_log # <<>> /\ synth_log[Len(synth_log)].llm.raises

\* the next dimension of the plan
SynthesizeNext ==
    /\ dim_index < Len(plan_dimensions)
    /\ ~SynthFailed
    /\ \E llm \in SynthOutcomes :
         LET res == synthesize_section(plan_dimensions[dim_index + 1], current_report,
                        plan_dimensions, per_paper_summaries_extd, already_written, llm)
         IN  /\ dim_index' = dim_index + 1
             /\ synth_log' = synth_log \o res.prompts
             /\ already_written' = res.already_written
             /\ yielded' = IF res.yields
                           THEN Append(yielded, [dimension |-> dim_index + 1,
                                                 text |-> res.text])
                           ELSE yielded
    /\ UNCHANGED <<plan_dimensions, editVars, runVars, artifactVars, mergeVars, clock,
                   quoteVars, batchVars, citeVars, configVars, costVars, watchVars,
                   unifiedVars>>

NextSynth == SynthesizeNext

SpecSynth == InitSynth /\ [][NextSynth]_vars

\* ----------------------------------------------------------------- SpecQuotes
\* the quote extractor in edit mode (step_select_quotes_edit): one completion
\* per scored reference, run by parallel workers; the quotes that pass the
\* filter, keyed by citation key and sorted by it
\* scored references of a call in the SpecQuotes model
MaxRefs == 3

\* a text is a sequence of characters
NoneWord == <<"N", "o", "n", "e">>
ValidQuote ==
    <<"V", "a", "l", "i", "d", " ", "q", "u", "o", "t", "e", " ", "h", "e", "r", "e",
      ".", ".", ".">>
NoneExtraText ==
    NoneWord \o <<"\n", "E", "x", "t", "r", "a", " ", "t", "e", "x", "t">>
\* the quotes shorter than this are noise
MinQuoteLength == 10

\* str.lower on the letters the texts are made of
UpperCase == {"N", "O", "E", "V", "T"}
lower_char(c) ==
    IF c \notin UpperCase THEN c
    ELSE CASE c = "N" -> "n" [] c = "O" -> "o" [] c = "E" -> "e"
           [] c = "V" -> "v" [] c = "T" -> "t"
lower(text) == [i \in 1..Len(text) |-> lower_char(text[i])]
Whitespace == {" ", "\n"}
\* the characters of a text before its first whitespace
first_token(text) ==
    LET stops == {i \in 1..Len(text) : text[i] \in Whitespace}
        end == IF stops = {} THEN Len(text)
               ELSE (CHOOSE i \in stops : \A j \in stops : i <= j) - 1
    IN  SubSeq(text, 1, end)

\* the completions a reference may get: no result at all, or a text
QuoteTexts ==
    {ValidQuote, NoneWord, NoneExtraText, lower(NoneWord), <<"N", "O", "N", "E">>,
     <<"N", "o", "n", "e", "s", "u", "c", "h", " ", "t", "e", "x", "t">>,
     <<"T", "o", "o", " ", "s", "h", "o", "r", "t">>,
     <<"T", "e", "n", " ", "c", "h", "a", "r", "s", ".">>}
QuoteResponses ==
    {[failed |-> FALSE, content |-> t] : t \in QuoteTexts}
        \cup {[failed |-> TRUE, content |-> <<>>]}
\* the responses of test_step_select_quotes_edit_handles_none_responses
NoneResponses ==
    <<[failed |-> FALSE, content |-> ValidQuote],
      [failed |-> FALSE, content |-> NoneWord],
      [failed |-> FALSE, content |-> NoneExtraText]>>

\* the citation key of the k-th scored reference: the digits of its corpus id
\* (the rest of a key follows a space, which sorts before every digit)
DigitChars == <<"0", "1", "2", "3", "4", "5", "6", "7", "8", "9">>
RECURSIVE digits(_)
digits(n) == IF n < 10 THEN <<DigitChars[n + 1]>>
             ELSE Append(digits(n \div 10), DigitChars[(n % 10) + 1])
corpus_id(k) == (13 * k + 13) % 32
reference_key(k) == digits(corpus_id(k))
digit_rank(c) == CHOOSE d \in 1..10 : DigitChars[d] = c
\* the order of str on keys: by the first character that differs, a proper
\* prefix first
RECURSIVE key_less(_, _)
key_less(a, b) ==
    IF a = <<>> THEN b # <<>>
    ELSE IF b = <<>> THEN FALSE
    ELSE IF Head(a) # Head(b) THEN digit_rank(Head(a)) < digit_rank(Head(b))
    ELSE key_less(Tail(a), Tail(b))
\* a sequence of [key, quote] with distinct keys, in the order of its keys
sorted_by_key_as_collected(items) == items
sorted_by_key(items) ==
    LET below(i) == Cardinality({j \in 1..Len(items) : key_less(items[j].key, items[i].key)})
    IN  [p \in 1..Len(items) |-> items[CHOOSE i \in 1..Len(items) : below(i) = p - 1]]

\* the completion asked for no quote: "none" in any case, alone or as the first
\* token of the text
is_none_response(text) ==
    \/ lower(text) = lower(NoneWord)
    \/ lower(first_token(text)) = lower(NoneWord)
\* what was collected from the workers, as it came in, to the mapping of the step: a
\* reference whose completion failed, answered none or gave a quote shorter
\* than the minimum is left out; the rest is sorted by citation key
step_select_quotes_edit_exact_none(collected) ==
    LET F[i \in 0..Len(collected)] ==
            IF i = 0 THEN <<>>
            ELSE IF \/ collected[i].response.failed
                    \/ collected[i].response.content = NoneWord
                 THEN F[i - 1]
                 ELSE Append(F[i - 1], [key |-> collected[i].key,
                                        quote |-> collected[i].response.content])
    IN  sorted_by_key(F[Len(collected)])
step_select_quotes_edit(collected) ==
    LET F[i \in 0..Len(collected)] ==
            IF i = 0 THEN <<>>
            ELSE IF \/ collected[i].response.failed
                    \/ is_none_response(collected[i].response.content)
                    \/ Len(collected[i].response.content) < MinQuoteLength
                 THEN F[i - 1]
                 ELSE Append(F[i - 1], [key |-> collected[i].key,
                                        quote |-> collected[i].response.content])
    IN  sorted_by_key(F[Len(collected)])

\* the plans of the planner: per dimension the indices of its quotes, as in
\* test_quote_to_plan_to_section_flow, and one with an index of no quote
QuotePlans == {<<<<0>>, <<1>>>>, <<<<1, 0>>, <<2, 7>>>>}

InitQuotes ==
    /\ \E n \in 1..MaxRefs : quote_responses \in [1..n -> QuoteResponses]
    /\ arrived = <<>>
    /\ per_paper_summaries = <<>>
    /\ quotes_state = "extracting"
    /\ planner_input = <<>>
    /\ quote_plan = <<>>
    /\ resolved = <<>>
    /\ BatchIdle
    /\ UnifiedIdle
    /\ WatchIdle
    /\ CostIdle
    /\ ConfigIdle
    /\ CiteIdle
    /\ current_report = SynthReport
    /\ section_plans = <<>>
    /\ NoEditCalls
    /\ SynthIdle
    /\ run_state = "idle"
    /\ mentioned_papers = <<>>
    /\ decision = [has |-> FALSE, value |-> NoDecision]
    /\ edit_plan = [has |-> FALSE, value |-> NoPlan]
    /\ edited_sections = <<>>
    /\ created_sections = <<>>
    /\ calls = <<>>
    /\ final_report = NoFinalReport
    /\ clock = 1
    /\ mTree = NoTree
    /\ NoMergeCall
    /\ file = NoFile("missing")
    /\ file0 = file
    /\ message_id = [w \in Writers |-> "m1"]
    /\ WritersConstructed

\* the worker of one reference returns
WorkerReturns ==
    /\ quotes_state = "extracting"
    /\ \E i \in 1..Len(quote_responses) :
         /\ \A j \in 1..Len(arrived) : arrived[j] # i
         /\ arrived' = Append(arrived, i)
    /\ UNCHANGED <<quote_responses, per_paper_summaries, quotes_state, planner_input,
                   quote_plan, resolved, editVars, runVars, synthVars, artifactVars,
                   mergeVars, clock, batchVars, citeVars, configVars, costVars, watchVars,
                   unifiedVars>>

\* every worker has returned: the step filters, sorts and returns
SelectQuotes ==
    /\ quotes_state = "extracting"
    /\ Len(arrived) = Len(quote_responses)
    /\ per_paper_summaries' =
         step_select_quotes_edit([j \in 1..Len(arrived) |->
             [key |-> reference_key(arrived[j]),
              response |-> quote_responses[arrived[j]]]])
    /\ quotes_state' = "done"
    /\ UNCHANGED <<quote_responses, arrived, planner_input, quote_plan, resolved, editVars,
                   runVars, synthVars, artifactVars, mergeVars, clock, batchVars, citeVars,
                   configVars, costVars, watchVars, unifiedVars>>

\* the planner is invoked with the quotes in index order and answers with a
\* plan that names quotes by index
InvokePlanner ==
    /\ quotes_state = "done"
    /\ planner_input' = per_paper_summaries
    /\ quote_plan' \in QuotePlans
    /\ quotes_state' = "planned"
    /\ UNCHANGED <<quote_responses, arrived, per_paper_summaries, resolved, editVars,
                   runVars, synthVars, artifactVars, mergeVars, clock, batchVars, citeVars,
                   configVars, costVars, watchVars, unifiedVars>>

\* the synthesizer looks up the quotes of the next dimension of the plan
ResolveDimension ==
    /\ quotes_state = "planned"
    /\ Len(resolved) < Len(quote_plan)
    /\ resolved' = Append(resolved,
           section_references(per_paper_summaries, quote_plan[Len(resolved) + 1]))
    /\ UNCHANGED <<quote_responses, arrived, per_paper_summaries, quotes_state,
                   planner_input, quote_plan, editVars, runVars, synthVars,
                   artifactVars, mergeVars, clock, batchVars, citeVars, configVars,
                   costVars, watchVars, unifiedVars>>

NextQuotes ==
    \/ WorkerReturns
    \/ SelectQuotes
    \/ InvokePlanner
    \/ ResolveDimension

SpecQuotes == InitQuotes /\ [][NextQuotes]_vars

\* ------------------------------------------------------------------ SpecBatch
\* batch_llm_completion: the messages are sent as a batch; the responses that
\* cannot be parsed are sent again, up to NUM_RETRIES further rounds
NUM_RETRIES == 3
\* messages of a call in the SpecBatch model
MaxMessages == 3

\* an entry of results: None, or the CompletionResult of a response
NoResult == [has |-> FALSE, answers |-> 0, round |-> 0]
\* a response of the gateway to the message at this index, in this round; one
\* that is an exception object or has no usage or choices does not parse
Response(parses, idx, round) == [parses |-> parses, answers |-> idx, round |-> round]
parse_litellm_response(res) == [has |-> TRUE, answers |-> res.answers, round |-> res.round]
\* what litellm.batch_completion gives for the pending messages: one response
\* per message, in the order of the messages
BatchResponses(sent, round) ==
    { [j \in 1..Len(sent) |-> Response(ok[j], sent[j], round)] :
        ok \in [1..Len(sent) -> BOOLEAN] }
\* the indices whose result is None, ascending
none_indices(res) ==
    LET F[i \in 0..Len(res)] ==
            IF i = 0 THEN <<>>
            ELSE IF res[i].has THEN F[i - 1] ELSE Append(F[i - 1], i)
    IN  F[Len(res)]

\* the for loop over the responses of one round: each response that parses is
\* stored at the index of its message; one that does not is left for the next
\* round, and raises in the last round
parse_responses_raise_at_once(res, sent, retry, responses) ==
    LET F[i \in 0..Len(responses)] ==
            IF i = 0 THEN [raised |-> FALSE, results |-> res]
            ELSE IF F[i - 1].raised THEN F[i - 1]
            ELSE IF responses[i].parses
                 THEN [raised |-> FALSE,
                       results |-> [F[i - 1].results EXCEPT
                                       ![sent[i]] = parse_litellm_response(responses[i])]]
                 ELSE [raised |-> TRUE, results |-> F[i - 1].results]
    IN  F[Len(responses)]
parse_responses_at_position(res, sent, retry, responses) ==
    LET F[i \in 0..Len(responses)] ==
            IF i = 0 THEN [raised |-> FALSE, results |-> res]
            ELSE IF F[i - 1].raised THEN F[i - 1]
            ELSE IF responses[i].parses
                 THEN [raised |-> FALSE,
                       results |-> [F[i - 1].results EXCEPT
                                       ![i] = parse_litellm_response(responses[i])]]
                 ELSE [raised |-> retry = NUM_RETRIES, results |-> F[i - 1].results]
    IN  F[Len(responses)]
parse_responses_drop_failed(res, sent, retry, responses) ==
    LET F[i \in 0..Len(responses)] ==
            IF i = 0 THEN [raised |-> FALSE, results |-> res]
            ELSE IF responses[i].parses
                 THEN [raised |-> FALSE,
                       results |-> [F[i - 1].results EXCEPT
                                       ![sent[i]] = parse_litellm_response(responses[i])]]
                 ELSE F[i - 1]
    IN  F[Len(responses)]
parse_responses(res, sent, retry, responses) ==
    LET F[i \in 0..Len(responses)] ==
            IF i = 0 THEN [raised |-> FALSE, results |-> res]
            ELSE IF F[i - 1].raised THEN F[i - 1]
            ELSE IF responses[i].parses
                 THEN [raised |-> FALSE,
                       results |-> [F[i - 1].results EXCEPT
                                       ![sent[i]] = parse_litellm_response(responses[i])]]
                 ELSE [raised |-> retry = NUM_RETRIES, results |-> F[i - 1].results]
    IN  F[Len(responses)]

InitBatch ==
    /\ batch_messages \in 0..MaxMessages
    /\ results = [i \in 1..batch_messages |-> NoResult]
    /\ pending = [i \in 1..batch_messages |-> i]
    /\ curr_retry = 0
    /\ batch_state = "running"
    /\ batch_log = <<>>
    /\ UnifiedIdle
    /\ WatchIdle
    /\ CostIdle
    /\ ConfigIdle
    /\ QuotesIdle
    /\ SynthIdle
    /\ CiteIdle
    /\ current_report = <<>>
    /\ section_plans = <<>>
    /\ NoEditCalls
    /\ run_state = "idle"
    /\ mentioned_papers = <<>>
    /\ decision = [has |-> FALSE, value |-> NoDecision]
    /\ edit_plan = [has |-> FALSE, value |-> NoPlan]
    /\ edited_sections = <<>>
    /\ created_sections = <<>>
    /\ calls = <<>>
    /\ final_report = NoFinalReport
    /\ clock = 1
    /\ mTree = NoTree
    /\ NoMergeCall
    /\ file = NoFile("missing")
    /\ file0 = file
    /\ message_id = [w \in Writers |-> "m1"]
    /\ WritersConstructed

\* the condition of the while loop
BatchLoops == pending # <<>> /\ curr_retry <= NUM_RETRIES

\* one round of the loop whose gateway call returns
BatchRound ==
    /\ batch_state = "running"
    /\ BatchLoops
    /\ \E responses \in BatchResponses(pending, curr_retry) :
         LET parsed == parse_responses(results, pending, curr_retry, responses)
         IN  /\ results' = parsed.results
             /\ batch_log' = Append(batch_log, [sent |-> pending, responses |-> responses,
                                                raised |-> parsed.raised])
             /\ IF parsed.raised
                THEN /\ batch_state' = "raised"
                     /\ UNCHANGED <<pending, curr_retry>>
                ELSE /\ pending' = none_indices(parsed.results)
                     /\ curr_retry' = curr_retry + 1
                     /\ UNCHANGED batch_state
    /\ UNCHANGED <<batch_messages, editVars, runVars, synthVars, quoteVars, artifactVars,
                   mergeVars, clock, citeVars, configVars, costVars, watchVars,
                   unifiedVars>>

\* completion_with_retries raises: the call raises in whatever round it is
BatchGatewayRaises ==
    /\ batch_state = "running"
    /\ BatchLoops
    /\ batch_state' = "raised"
    /\ batch_log' = Append(batch_log, [sent |-> pending, responses |-> <<>>,
                                       raised |-> TRUE])
    /\ UNCHANGED <<batch_messages, results, pending, curr_retry, editVars, runVars,
                   synthVars, quoteVars, artifactVars, mergeVars, clock, citeVars,
                   configVars, costVars, watchVars, unifiedVars>>

\* the loop is over: the call returns results
BatchReturns ==
    /\ batch_state = "running"
    /\ ~BatchLoops
    /\ batch_state' = "returned"
    /\ UNCHANGED <<batch_messages, results, pending, curr_retry, batch_log, editVars,
                   runVars, synthVars, quoteVars, artifactVars, mergeVars, clock, citeVars,
                   configVars, costVars, watchVars, unifiedVars>>

NextBatch ==
    \/ BatchRound
    \/ BatchGatewayRaises
    \/ BatchReturns

SpecBatch == InitBatch /\ [][NextBatch]_vars
\* the call keeps running: every gateway call returns or raises, and the
\* loop goes on by itself
SpecBatchLive == SpecBatch /\ WF_vars(NextBatch)

\* ------------------------------------------------------------------- SpecCite
\* unified generation: the keys format_df_as_references puts in the prompt,
\* cited in the response's sections, parsed back by build_per_paper_summaries
\* rows of scored_df in the SpecCite model
MaxRows == 2
\* citations in the response in the SpecCite model
MaxCited == 2

\* author strings of get_ref_author_str, the function's caller's concern: a
\* name, "Li et al.", no author, a padded name, a blank, a name with a bar
AuthorStrings ==
    {<<"A">>, <<"L", "i", " ", "e", "t", " ", "a", "l", ".">>, <<>>, <<" ", "A">>,
     <<"A", " ">>, <<" ">>, <<"A", "|", "B">>}
\* the text a row carries: sentences, an abstract only, or neither
RowTexts == {"sentences", "abstract", "none"}
\* the k-th row of scored_df
Row(k, authors, text) ==
    [corpus_id |-> corpus_id(k), authors |-> authors, year |-> 2020 + k,
     citation_count |-> 93 * (k - 1), text |-> text]

\* f"[{corpus_id} | {get_ref_author_str(authors)} | {make_int(year)} |
\*    Citations: {make_int(citations)}]" on the characters
citation_string(id_str, author_str, year_str, count_str) ==
    <<"[">> \o id_str \o <<" ", "|", " ">> \o author_str \o <<" ", "|", " ">> \o year_str
        \o <<" ", "|", " ", "C", "i", "t", "a", "t", "i", "o", "n", "s", ":", " ">>
        \o count_str \o <<"]">>
format_reference_string(paper_metadata) ==
    citation_string(digits(paper_metadata.corpus_id), paper_metadata.authors,
                    digits(paper_metadata.year), digits(paper_metadata.citation_count))

\* ---- CITATION_PATTERN on a text
\* \[(\d+)\s*\|\s*([^|]+?)\s*\|\s*(\d+)\s*\|\s*Citations:\s*(\d+)\]
IsDigit(c) == \E d \in 1..10 : DigitChars[d] = c
\* the first position from p on that is not whitespace (not a digit, a bar)
skip_space(text, p) ==
    CHOOSE q \in p..(Len(text) + 1) :
        /\ q = Len(text) + 1 \/ text[q] \notin Whitespace
        /\ \A r \in p..(q - 1) : text[r] \in Whitespace
skip_digits(text, p) ==
    CHOOSE q \in p..(Len(text) + 1) :
        /\ q = Len(text) + 1 \/ ~IsDigit(text[q])
        /\ \A r \in p..(q - 1) : IsDigit(text[r])
next_bar(text, p) ==
    CHOOSE q \in p..(Len(text) + 1) :
        /\ q = Len(text) + 1 \/ text[q] = "|"
        /\ \A r \in p..(q - 1) : text[r] # "|"
At(text, p, c) == p <= Len(text) /\ text[p] = c
CitationsWord == <<"C", "i", "t", "a", "t", "i", "o", "n", "s", ":">>
\* the match of the pattern that starts at position s, if there is one
match_at(text, s) ==
    LET d1 == skip_digits(text, s + 1)
        b1 == skip_space(text, d1)
        b2 == next_bar(text, b1 + 1)
        a0 == skip_space(text, b1 + 1)
        \* group 2 is lazy: the segment between the bars without the space
        \* around it, or the last character of a segment that is all space
        a1 == IF a0 >= b2 THEN b2 - 1
              ELSE CHOOSE q \in a0..(b2 - 1) :
                       /\ text[q] \notin Whitespace
                       /\ \A r \in (q + 1)..(b2 - 1) : text[r] \in Whitespace
        g2 == IF a0 >= b2 THEN SubSeq(text, b2 - 1, b2 - 1) ELSE SubSeq(text, a0, a1)
        y0 == skip_space(text, b2 + 1)
        y1 == skip_digits(text, y0)
        b3 == skip_space(text, y1)
        c0 == skip_space(text, b3 + 1)
        n0 == skip_space(text, c0 + Len(CitationsWord))
        n1 == skip_digits(text, n0)
        ok == /\ At(text, s, "[")
              /\ d1 > s + 1
              /\ At(text, b1, "|")
              /\ b2 <= Len(text) /\ b2 > b1 + 1
              /\ y1 > y0
              /\ At(text, b3, "|")
              /\ c0 + Len(CitationsWord) - 1 <= Len(text)
              /\ SubSeq(text, c0, c0 + Len(CitationsWord) - 1) = CitationsWord
              /\ n1 > n0
              /\ At(text, n1, "]")
    IN  IF ok
        THEN [ok |-> TRUE, end |-> n1,
              groups |-> <<SubSeq(text, s + 1, d1 - 1), g2, SubSeq(text, y0, y1 - 1),
                           SubSeq(text, n0, n1 - 1)>>]
        ELSE [ok |-> FALSE, end |-> s, groups |-> <<>>]
\* CITATION_PATTERN.findall: the groups of the matches, leftmost first, none
\* overlapping
RECURSIVE findall_from(_, _)
findall_from(text, p) ==
    IF p > Len(text) THEN <<>>
    ELSE LET m == match_at(text, p)
         IN  IF m.ok THEN <<m.groups>> \o findall_from(text, m.end + 1)
             ELSE findall_from(text, p + 1)
findall(text) == findall_from(text, 1)

\* "\n".join(section_texts)
join_lines(texts) ==
    LET F[i \in 0..Len(texts)] ==
            IF i = 0 THEN <<>>
            ELSE IF i = 1 THEN texts[1]
            ELSE F[i - 1] \o <<"\n">> \o texts[i]
    IN  F[Len(texts)]
\* the snippet text of the first row with this corpus id, "" when the row has
\* neither sentences nor an abstract or there is no such row
get_snippets_for_paper(id_str, rows) ==
    LET hits == {k \in 1..Len(rows) : digits(rows[k].corpus_id) = id_str}
        row == rows[CHOOSE k \in hits : \A j \in hits : k <= j]
    IN  IF hits = {} \/ row.text = "none" THEN [quote_text |-> "", snippet_meta |-> <<>>]
        ELSE [quote_text |-> row.text, snippet_meta |-> <<[quote |-> row.text]>>]
build_per_paper_summaries_no_seen(texts, rows) ==
    LET citations == findall(join_lines(texts))
        F[i \in 0..Len(citations)] ==
            IF i = 0 THEN [extd |-> <<>>, meta |-> <<>>]
            ELSE LET id_str == citations[i][1]
                     citation_key == citation_string(id_str, citations[i][2],
                                                     citations[i][3], citations[i][4])
                     found == get_snippets_for_paper(id_str, rows)
                 IN  IF found.quote_text = "" THEN F[i - 1]
                     ELSE [extd |-> Append(F[i - 1].extd,
                                       [key |-> citation_key, quote |-> found.quote_text]),
                           meta |-> Append(F[i - 1].meta,
                                       [key |-> citation_key, meta |-> found.snippet_meta])]
    IN  [per_paper_summaries_extd |-> F[Len(citations)].extd,
         quotes_metadata |-> F[Len(citations)].meta]
\* the two maps, as sequences of entries in insertion order
build_per_paper_summaries(texts, rows) ==
    LET citations == findall(join_lines(texts))
        F[i \in 0..Len(citations)] ==
            IF i = 0 THEN [seen |-> {}, extd |-> <<>>, meta |-> <<>>]
            ELSE LET id_str == citations[i][1]
                     citation_key == citation_string(id_str, citations[i][2],
                                                     citations[i][3], citations[i][4])
                     found == get_snippets_for_paper(id_str, rows)
                 IN  IF id_str \in F[i - 1].seen THEN F[i - 1]
                     ELSE IF found.quote_text = ""
                     THEN [F[i - 1] EXCEPT !.seen = @ \cup {id_str}]
                     ELSE [seen |-> F[i - 1].seen \cup {id_str},
                           extd |-> Append(F[i - 1].extd,
                                       [key |-> citation_key, quote |-> found.quote_text]),
                           meta |-> Append(F[i - 1].meta,
                                       [key |-> citation_key, meta |-> found.snippet_meta])]
    IN  [per_paper_summaries_extd |-> F[Len(citations)].extd,
         quotes_metadata |-> F[Len(citations)].meta]

\* a section of the response that cites this key
SectionText(key) == <<"S", "e", "e", " ">> \o key \o <<".">>

InitCite ==
    /\ \E n \in 1..MaxRows :
         /\ \E a \in [1..n -> AuthorStrings], t \in [1..n -> RowTexts] :
              scored_df = [k \in 1..n |-> Row(k, a[k], t[k])]
         /\ cited \in UNION {[1..m -> 1..n] : m \in 1..MaxCited}
    /\ section_texts =
         [i \in 1..Len(cited) |-> SectionText(format_reference_string(scored_df[cited[i]]))]
    /\ summaries = NoSummaries
    /\ cite_state = "generated"
    /\ BatchIdle
    /\ UnifiedIdle
    /\ WatchIdle
    /\ CostIdle
    /\ ConfigIdle
    /\ QuotesIdle
    /\ SynthIdle
    /\ current_report = <<>>
    /\ section_plans = <<>>
    /\ NoEditCalls
    /\ run_state = "idle"
    /\ mentioned_papers = <<>>
    /\ decision = [has |-> FALSE, value |-> NoDecision]
    /\ edit_plan = [has |-> FALSE, value |-> NoPlan]
    /\ edited_sections = <<>>
    /\ created_sections = <<>>
    /\ calls = <<>>
    /\ final_report = NoFinalReport
    /\ clock = 1
    /\ mTree = NoTree
    /\ NoMergeCall
    /\ file = NoFile("missing")
    /\ file0 = file
    /\ message_id = [w \in Writers |-> "m1"]
    /\ WritersConstructed

\* the sections of the response are parsed for their citations
BuildPerPaperSummaries ==
    /\ cite_state = "generated"
    /\ summaries' = build_per_paper_summaries(section_texts, scored_df)
    /\ cite_state' = "built"
    /\ UNCHANGED <<scored_df, cited, section_texts, editVars, runVars, synthVars,
                   quoteVars, batchVars, artifactVars, mergeVars, clock, configVars,
                   costVars, watchVars, unifiedVars>>

NextCite == BuildPerPaperSummaries

SpecCite == InitCite /\ [][NextCite]_vars

\* citations in the response in the SpecCiteKeys model
MaxCitations == 3

\* the response cites a row as the prompt gave it, or with the citation count
\* rewritten (one more than the row's)
CitedAs(row, rewritten) ==
    citation_string(digits(row.corpus_id), row.authors, digits(row.year),
                    digits(row.citation_count + (IF rewritten THEN 1 ELSE 0)))
\* rows with one author string, cited in any order, any of the citations
\* rewritten by the model
InitCiteKeys ==
    /\ \E n \in 1..MaxRows :
         /\ \E t \in [1..n -> RowTexts] :
              scored_df = [k \in 1..n |-> Row(k, <<"L", "i">>, t[k])]
         /\ cited \in UNION {[1..m -> 1..n] : m \in 1..MaxCitations}
    /\ \E rewritten \in [1..Len(cited) -> BOOLEAN] :
         section_texts =
            [i \in 1..Len(cited) |-> SectionText(CitedAs(scored_df[cited[i]], rewritten[i]))]
    /\ summaries = NoSummaries
    /\ cite_state = "generated"
    /\ BatchIdle
    /\ UnifiedIdle
    /\ WatchIdle
    /\ CostIdle
    /\ ConfigIdle
    /\ QuotesIdle
    /\ SynthIdle
    /\ current_report = <<>>
    /\ section_plans = <<>>
    /\ NoEditCalls
    /\ run_state = "idle"
    /\ mentioned_papers = <<>>
    /\ decision = [has |-> FALSE, value |-> NoDecision]
    /\ edit_plan = [has |-> FALSE, value |-> NoPlan]
    /\ edited_sections = <<>>
    /\ created_sections = <<>>
    /\ calls = <<>>
    /\ final_report = NoFinalReport
    /\ clock = 1
    /\ mTree = NoTree
    /\ NoMergeCall
    /\ file = NoFile("missing")
    /\ file0 = file
    /\ message_id = [w \in Writers |-> "m1"]
    /\ WritersConstructed

SpecCiteKeys == InitCiteKeys /\ [][NextCite]_vars


\* ----------------------------------------------------------------- SpecConfig
\* ScholarQALite and ModalResponseGenerator: construction with or without the
\* required configuration, then the first call that needs it
\* the keys a report_generation_args dict may hold
ArgKeys == {"model", "temperature", "api_key"}
Args(keys) == [given |-> TRUE, keys |-> keys]
\* a string argument or environment variable: absent, empty or set
KeyValues == {"None", "", "secret"}
\* bool(x) of a str or None
truthy(value) == value \notin {"None", ""}

\* ScholarQALite.__init__ after super().__init__: the instance, or ValueError
ScholarQALite_init_any_dict(args) ==
    IF ~args.given \/ args.keys = {}
    THEN [NoInstance EXCEPT !.state = "ValueError"]
    ELSE [state |-> "constructed", report_generation_args |-> args, api_key |-> "None"]
ScholarQALite_init(args) ==
    IF (~args.given \/ args.keys = {}) \/ "model" \notin args.keys
    THEN [NoInstance EXCEPT !.state = "ValueError"]
    ELSE [state |-> "constructed", report_generation_args |-> args, api_key |-> "None"]
\* generate_report reads self.report_generation_args["model"]
lite_generate_report(self) ==
    IF "model" \in self.report_generation_args.keys
    THEN [self EXCEPT !.state = "used"]
    ELSE [self EXCEPT !.state = "KeyError"]

\* ModalResponseGenerator.__init__: api_key or the environment's key
ModalResponseGenerator_init(api_key, env) ==
    LET key == IF truthy(api_key) THEN api_key ELSE env
    IN  IF ~truthy(key) THEN [NoInstance EXCEPT !.state = "ValueError"]
        ELSE [state |-> "constructed", report_generation_args |-> NoArgs, api_key |-> key]
\* generate sends "Bearer {self.api_key}"; without a key the request is refused
modal_generate(self) ==
    IF truthy(self.api_key) THEN [self EXCEPT !.state = "used"]
    ELSE [self EXCEPT !.state = "Unauthorized"]

InitConfig ==
    /\ report_generation_args \in {NoArgs} \cup {Args(keys) : keys \in SUBSET ArgKeys}
    /\ api_key_arg \in KeyValues
    /\ environ \in KeyValues
    /\ lite = NoInstance
    /\ modal = NoInstance
    /\ BatchIdle
    /\ UnifiedIdle
    /\ WatchIdle
    /\ CostIdle
    /\ CiteIdle
    /\ QuotesIdle
    /\ SynthIdle
    /\ current_report = <<>>
    /\ section_plans = <<>>
    /\ NoEditCalls
    /\ run_state = "idle"
    /\ mentioned_papers = <<>>
    /\ decision = [has |-> FALSE, value |-> NoDecision]
    /\ edit_plan = [has |-> FALSE, value |-> NoPlan]
    /\ edited_sections = <<>>
    /\ created_sections = <<>>
    /\ calls = <<>>
    /\ final_report = NoFinalReport
    /\ clock = 1
    /\ mTree = NoTree
    /\ NoMergeCall
    /\ file = NoFile("missing")
    /\ file0 = file
    /\ message_id = [w \in Writers |-> "m1"]
    /\ WritersConstructed

ConstructLite ==
    /\ lite.state = "none"
    /\ lite' = ScholarQALite_init(report_generation_args)
    /\ UNCHANGED <<report_generation_args, api_key_arg, environ, modal, editVars, runVars,
                   synthVars, quoteVars, batchVars, citeVars, artifactVars, mergeVars,
                   clock, costVars, watchVars, unifiedVars>>

LiteGenerateReport ==
    /\ lite.state = "constructed"
    /\ lite' = lite_generate_report(lite)
    /\ UNCHANGED <<report_generation_args, api_key_arg, environ, modal, editVars, runVars,
                   synthVars, quoteVars, batchVars, citeVars, artifactVars, mergeVars,
                   clock, costVars, watchVars, unifiedVars>>

ConstructModal ==
    /\ modal.state = "none"
    /\ modal' = ModalResponseGenerator_init(api_key_arg, environ)
    /\ UNCHANGED <<report_generation_args, api_key_arg, environ, lite, editVars, runVars,
                   synthVars, quoteVars, batchVars, citeVars, artifactVars, mergeVars,
                   clock, costVars, watchVars, unifiedVars>>

ModalGenerate ==
    /\ modal.state = "constructed"
    /\ modal' = modal_generate(modal)
    /\ UNCHANGED <<report_generation_args, api_key_arg, environ, lite, editVars, runVars,
                   synthVars, quoteVars, batchVars, citeVars, artifactVars, mergeVars,
                   clock, costVars, watchVars, unifiedVars>>

\* the process's environment changes after the generator was constructed
EnvironChanges ==
    /\ modal.state = "constructed"
    /\ \E value \in KeyValues : value # environ /\ environ' = value
    /\ UNCHANGED <<report_generation_args, api_key_arg, lite, modal, editVars, runVars,
                   synthVars, quoteVars, batchVars, citeVars, artifactVars, mergeVars,
                   clock, costVars, watchVars, unifiedVars>>

NextConfig ==
    \/ ConstructLite
    \/ LiteGenerateReport
    \/ ConstructModal
    \/ ModalGenerate
    \/ EnvironChanges

SpecConfig == InitConfig /\ [][NextConfig]_vars

\* ------------------------------------------------------------------- SpecCost
\* plan entries of the run whose usage is aggregated
MaxStepResults == 3

\* a CompletionResult (content, model, cost); none = TRUE is None
CompletionModels == {"model-a", "model-b"}
CompletionCosts == {1, 2}
CompletionResult(content, model, cost) ==
    [none |-> FALSE, content |-> content, model |-> model, cost |-> cost]
NoCompletion == [none |-> TRUE, content |-> "None", model |-> "None", cost |-> 0]

\* the tuple step_execute_section_edit returns for an entry with this action,
\* its completion answered by `model` at `cost`: (section or None,
\* CompletionResult or None)
CostedSection == Section("Section 1", "tldr 1", "text A", <<1000>>, "None")
StepResult(action, model, cost) ==
    LET res == step_execute_section_edit(CostedSection, 0,
                    SectionEditPlan(0, CostedSection.title, action, <<>>, "None"),
                    <<CostedSection>>, papers_data,
                    [raises |-> FALSE, content |-> "generated A"])
    IN  [is_tuple |-> TRUE,
         main_res |-> [has |-> res.has_section, section |-> res.section],
         completion_costs |->
            [is_list |-> FALSE,
             items |-> <<IF res.has_response
                         THEN CompletionResult(res.response, model, cost)
                         ELSE NoCompletion>>]]
StepResults ==
    { StepResult(a, m, c) :
        a \in {"keep", "delete", "expand", "replace"},
        m \in CompletionModels, c \in CompletionCosts }

\* CostAwareLLMCaller._unpack_result
unpack_result(result) ==
    LET completion_costs ==
            IF result.is_tuple THEN result.completion_costs
            ELSE [is_list |-> FALSE, items |-> <<result.main_res>>]
    IN  [main_res |-> result.main_res,
         costs_list |-> IF ~completion_costs.is_list
                        THEN <<completion_costs.items[1]>>
                        ELSE completion_costs.items]

\* [cost.model for cost in costs_list]: None has no attribute 'model'
completion_models(costs_list) ==
    IF \E i \in 1..Len(costs_list) : costs_list[i].none
    THEN [raised |-> TRUE, models |-> <<>>]
    ELSE [raised |-> FALSE, models |-> [i \in 1..Len(costs_list) |-> costs_list[i].model]]

\* state_mgr.report_llm_usage: the total cost of the completions it is given
report_llm_usage(completion_costs) ==
    LET F[i \in 0..Len(completion_costs)] ==
            IF i = 0 THEN 0 ELSE F[i - 1] + completion_costs[i].cost
    IN  F[Len(completion_costs)]

\* CostAwareLLMCaller.call_method on a method that returned method_result
call_method(method_result) ==
    LET unpacked == unpack_result(method_result)
        completion_models_ == completion_models(unpacked.costs_list)
    IN  IF completion_models_.raised
        THEN [raised |-> TRUE, reported |-> <<>>, value |-> NoCostResult]
        ELSE [raised |-> FALSE, reported |-> <<unpacked.costs_list>>,
              value |-> [result |-> <<unpacked.main_res>>,
                         tot_cost |-> report_llm_usage(unpacked.costs_list),
                         models |-> completion_models_.models]]

InitCost ==
    /\ \E n \in 1..MaxStepResults : step_results \in [1..n -> StepResults]
    /\ cost_state = "idle"
    /\ cost_pos = 0
    /\ all_results = <<>>
    /\ all_completion_costs = <<>>
    /\ all_completion_models = <<>>
    /\ reported = <<>>
    /\ cost_result = NoCostResult
    /\ BatchIdle
    /\ UnifiedIdle
    /\ WatchIdle
    /\ ConfigIdle
    /\ CiteIdle
    /\ QuotesIdle
    /\ SynthIdle
    /\ current_report = <<>>
    /\ section_plans = <<>>
    /\ NoEditCalls
    /\ run_state = "idle"
    /\ mentioned_papers = <<>>
    /\ decision = [has |-> FALSE, value |-> NoDecision]
    /\ edit_plan = [has |-> FALSE, value |-> NoPlan]
    /\ edited_sections = <<>>
    /\ created_sections = <<>>
    /\ calls = <<>>
    /\ final_report = NoFinalReport
    /\ clock = 1
    /\ mTree = NoTree
    /\ NoMergeCall
    /\ file = NoFile("missing")
    /\ file0 = file
    /\ message_id = [w \in Writers |-> "m1"]
    /\ WritersConstructed

\* call_method around the step of the next plan entry
CallMethod ==
    /\ cost_state \in {"idle", "called"}
    /\ cost_pos < Len(step_results)
    /\ LET res == call_method(step_results[cost_pos + 1])
       IN  /\ cost_state' = IF res.raised THEN "AttributeError" ELSE "called"
           /\ reported' = reported \o res.reported
           /\ cost_result' = res.value
    /\ cost_pos' = cost_pos + 1
    /\ UNCHANGED <<step_results, all_results, all_completion_costs,
                   all_completion_models, editVars, runVars, synthVars, quoteVars,
                   batchVars, citeVars, configVars, artifactVars, mergeVars, clock,
                   watchVars, unifiedVars>>

\* call_iter_method is started around a generator that yields the step results
CallIterMethod ==
    /\ cost_state = "idle"
    /\ cost_state' = "iterating"
    /\ UNCHANGED <<step_results, cost_pos, all_results, all_completion_costs,
                   all_completion_models, reported, cost_result, editVars, runVars,
                   synthVars, quoteVars, batchVars, citeVars, configVars, artifactVars,
                   mergeVars, clock, watchVars, unifiedVars>>

\* call_iter_method: one pass of `for method_result in gen_method(**kwargs)`
IterYield ==
    /\ cost_state = "iterating"
    /\ cost_pos < Len(step_results)
    /\ LET unpacked == unpack_result(step_results[cost_pos + 1])
           completion_models_ == completion_models(unpacked.costs_list)
       IN  /\ all_completion_costs' = all_completion_costs \o unpacked.costs_list
           /\ IF completion_models_.raised
              THEN /\ cost_state' = "AttributeError"
                   /\ UNCHANGED <<all_completion_models, all_results>>
              ELSE /\ all_completion_models' =
                        all_completion_models \o completion_models_.models
                   /\ all_results' = Append(all_results, unpacked.main_res)
                   /\ UNCHANGED cost_state
    /\ cost_pos' = cost_pos + 1
    /\ UNCHANGED <<step_results, reported, cost_result, editVars, runVars, synthVars,
                   quoteVars, batchVars, citeVars, configVars, artifactVars, mergeVars,
                   clock, watchVars, unifiedVars>>

\* call_iter_method: the generator is exhausted, the usage is reported
IterReturn ==
    /\ cost_state = "iterating"
    /\ cost_pos = Len(step_results)
    /\ cost_state' = "returned"
    /\ reported' = Append(reported, all_completion_costs)
    /\ cost_result' = [result |-> all_results,
                       tot_cost |-> report_llm_usage(all_completion_costs),
                       models |-> all_completion_models]
    /\ UNCHANGED <<step_results, cost_pos, all_results, all_completion_costs,
                   all_completion_models, editVars, runVars, synthVars, quoteVars,
                   batchVars, citeVars, configVars, artifactVars, mergeVars, clock,
                   watchVars, unifiedVars>>

NextCost == CallMethod \/ CallIterMethod \/ IterYield \/ IterReturn

SpecCost == InitCost /\ [][NextCost]_vars

\* ------------------------------------------------ the file watcher's handler
\* artifact_watcher.py: one Observer dispatches the file events of the
\* artifacts directory to one ArtifactFileHandler, one event at a time; the
\* handler's steps are cut where it blocks (the sleep and the read, the
\* callback), and the files change under it at any of these points.
MaxEvents == 2

\* paths are texts; the handler tests their suffix and their file name
TPath   == <<"t", ".", "j", "s", "o", "n">>
UPath   == <<".", "t", "m", "p", "_", "/", "u", ".", "j", "s", "o", "n">>
TmpPath == <<".", "t", "m", "p", "_", "a", ".", "j", "s", "o", "n">>
TxtPath == <<"t", ".", "j", "s", "o", "n", "l">>
DirPath == <<"d", ".", "j", "s", "o", "n">>
JsonSuffix == <<".", "j", "s", "o", "n">>
TmpPrefix  == <<".", "t", "m", "p", "_">>

\* str.endswith, str.startswith
endswith(s, suffix) ==
    /\ Len(s) >= Len(suffix)
    /\ SubSeq(s, Len(s) - Len(suffix) + 1, Len(s)) = suffix
startswith(s, prefix) ==
    /\ Len(s) >= Len(prefix)
    /\ SubSeq(s, 1, Len(prefix)) = prefix
\* Path(p).name: the text after the last separator
path_name(s) ==
    LET seps == {i \in 1..Len(s) : s[i] = "/"}
    IN  IF seps = {} THEN s
        ELSE SubSeq(s, (CHOOSE i \in seps : \A j \in seps : j <= i) + 1, Len(s))

\* a file event: watchdog's event.is_directory and event.src_path
FileEvent(kind, is_directory, src_path) ==
    [kind |-> kind, is_directory |-> is_directory, src_path |-> src_path]
FileEvents(kind) ==
    {FileEvent(kind, FALSE, p) : p \in {TPath, UPath, TmpPath, TxtPath}}
        \cup {FileEvent(kind, TRUE, DirPath)}

\* what a file holds: a text that is not JSON, a JSON value that is not an
\* object, or an artifact node with its data.type and its children; a child
\* is a node with the types of its own children, or a value that is no object
Unparseable == [kind |-> "unparseable", data_is_dict |-> FALSE, type |-> "None", children |-> <<>>]
ListArtifact == [kind |-> "list", data_is_dict |-> FALSE, type |-> "None", children |-> <<>>]
DataNotDict == [kind |-> "dict", data_is_dict |-> FALSE, type |-> "None", children |-> <<>>]
WatchedNode(type, children) ==
    [kind |-> "dict", data_is_dict |-> TRUE, type |-> type, children |-> children]
WatchedChild(type, children) == [is_dict |-> TRUE, type |-> type, children |-> children]
NonDictChild == [is_dict |-> FALSE, type |-> "None", children |-> <<>>]
MessageKids == {<<>>, <<"STEP_PROGRESS">>, <<"SQA_REPORT">>, <<"STEP_PROGRESS", "SQA_REPORT">>}
ThreadKids ==
    {WatchedChild("MESSAGE", k) : k \in MessageKids} \cup {WatchedChild("STEP_PROGRESS", <<>>), NonDictChild}
FileContents ==
    {Unparseable, ListArtifact, DataNotDict, WatchedNode("MESSAGE", <<>>), WatchedNode("THREAD", <<>>)}
        \cup {WatchedNode("THREAD", <<a>>) : a \in ThreadKids}
        \cup {WatchedNode("THREAD", <<a, WatchedChild("MESSAGE", k)>>) :
                 a \in ThreadKids, k \in {<<>>, <<"SQA_REPORT">>}}
\* the second artifact: a thread whose message has no report yet
UContent == WatchedNode("THREAD", <<WatchedChild("MESSAGE", <<>>)>>)
read_file(content, path) == IF path = TPath THEN content ELSE UContent

\* _should_process: "True", "False", or "raised" when a child that is no
\* object is reached before a message (child.get raises AttributeError)
should_process_no_report_check(artifact_) ==
    IF artifact_.kind # "dict" THEN "False"
    ELSE IF ~artifact_.data_is_dict THEN "False"
    ELSE IF artifact_.type # "THREAD" THEN "False"
    ELSE IF artifact_.children = <<>> THEN "False"
    ELSE
        LET stops == {i \in 1..Len(artifact_.children) :
                         \/ ~artifact_.children[i].is_dict
                         \/ artifact_.children[i].type = "MESSAGE"}
        IN  IF stops = {} THEN "False"
            ELSE IF ~artifact_.children[CHOOSE i \in stops : \A j \in stops : i <= j].is_dict
                 THEN "raised"
            ELSE "True"
should_process(artifact_) ==
    IF artifact_.kind # "dict" THEN "False"
    ELSE IF ~artifact_.data_is_dict THEN "False"
    ELSE IF artifact_.type # "THREAD" THEN "False"
    ELSE IF artifact_.children = <<>> THEN "False"
    ELSE
        LET stops == {i \in 1..Len(artifact_.children) :
                         \/ ~artifact_.children[i].is_dict
                         \/ artifact_.children[i].type = "MESSAGE"}
        IN  IF stops = {} THEN "False"
            ELSE
                LET child == artifact_.children[CHOOSE i \in stops : \A j \in stops : i <= j]
                IN  IF ~child.is_dict THEN "raised"
                    ELSE IF \E k \in 1..Len(child.children) : child.children[k] = "SQA_REPORT"
                         THEN "False"
                    ELSE "True"

\* on_created: whether the event reaches _process_artifact
on_created_no_tmp_filter(event) ==
    /\ ~event.is_directory
    /\ endswith(event.src_path, JsonSuffix)
on_created(event) ==
    /\ ~event.is_directory
    /\ endswith(event.src_path, JsonSuffix)
    /\ ~startswith(path_name(event.src_path), TmpPrefix)
\* on_modified: the same filters, and the path was not processed before
on_modified_unchecked(processed, event) ==
    /\ ~event.is_directory
    /\ endswith(event.src_path, JsonSuffix)
    /\ ~startswith(path_name(event.src_path), TmpPrefix)
on_modified(processed, event) ==
    /\ ~event.is_directory
    /\ endswith(event.src_path, JsonSuffix)
    /\ ~startswith(path_name(event.src_path), TmpPrefix)
    /\ event.src_path \notin processed

InitWatch ==
    /\ wfile \in FileContents
    /\ processed_artifacts = {}
    /\ processing_lock = {}
    /\ wpc = "idle"
    /\ wevent = NoEvent
    /\ wartifact = NoArtifact
    /\ events_seen = 0
    /\ reads = 0
    /\ completed = {}
    /\ read_failed = {}
    /\ woutcome = "none"
    /\ second_call = "none"
    /\ BatchIdle
    /\ UnifiedIdle
    /\ CostIdle
    /\ ConfigIdle
    /\ CiteIdle
    /\ QuotesIdle
    /\ SynthIdle
    /\ current_report = <<>>
    /\ section_plans = <<>>
    /\ NoEditCalls
    /\ run_state = "idle"
    /\ mentioned_papers = <<>>
    /\ decision = [has |-> FALSE, value |-> NoDecision]
    /\ edit_plan = [has |-> FALSE, value |-> NoPlan]
    /\ edited_sections = <<>>
    /\ created_sections = <<>>
    /\ calls = <<>>
    /\ final_report = NoFinalReport
    /\ clock = 1
    /\ mTree = NoTree
    /\ NoMergeCall
    /\ file = NoFile("missing")
    /\ file0 = file
    /\ message_id = [w \in Writers |-> "m1"]
    /\ WritersConstructed

\* _process_artifact up to the sleep: return when the path is locked, lock it
\* otherwise
ProcessArtifactEnter_no_lock(file_path) ==
    /\ wpc' = "sleep"
    /\ woutcome' = "running"
    /\ UNCHANGED processing_lock
ProcessArtifactEnter(file_path) ==
    IF file_path \in processing_lock
    THEN /\ wpc' = "idle"
         /\ woutcome' = "locked"
         /\ UNCHANGED processing_lock
    ELSE /\ processing_lock' = processing_lock \cup {file_path}
         /\ wpc' = "sleep"
         /\ woutcome' = "running"

\* the Observer dispatches a created event
OnCreated ==
    /\ wpc = "idle"
    /\ events_seen < MaxEvents
    /\ \E event \in FileEvents("created") :
         /\ wevent' = event
         /\ IF on_created(event)
            THEN ProcessArtifactEnter(event.src_path)
            ELSE /\ wpc' = "idle"
                 /\ woutcome' = "filtered"
                 /\ UNCHANGED processing_lock
    /\ events_seen' = events_seen + 1
    /\ UNCHANGED <<wfile, processed_artifacts, wartifact, reads, completed, read_failed,
                   second_call>>
    /\ UNCHANGED <<editVars, runVars, synthVars, quoteVars, batchVars, citeVars, configVars,
                   costVars, artifactVars, mergeVars, clock, unifiedVars>>

\* the Observer dispatches a modified event
OnModified ==
    /\ wpc = "idle"
    /\ events_seen < MaxEvents
    /\ \E event \in FileEvents("modified") :
         /\ wevent' = event
         /\ IF on_modified(processed_artifacts, event)
            THEN ProcessArtifactEnter(event.src_path)
            ELSE /\ wpc' = "idle"
                 /\ woutcome' = "filtered"
                 /\ UNCHANGED processing_lock
    /\ events_seen' = events_seen + 1
    /\ UNCHANGED <<wfile, processed_artifacts, wartifact, reads, completed, read_failed,
                   second_call>>
    /\ UNCHANGED <<editVars, runVars, synthVars, quoteVars, batchVars, citeVars, configVars,
                   costVars, artifactVars, mergeVars, clock, unifiedVars>>

\* _process_artifact from the sleep to the callback: load the file, test the
\* artifact; a failure is logged and the lock released in the finally clause
LoadArtifact ==
    /\ wpc = "sleep"
    /\ reads' = reads + 1
    /\ LET file_path == wevent.src_path
           artifact_  == read_file(wfile, file_path)
       IN  IF artifact_.kind = "unparseable"
           THEN /\ read_failed' = read_failed \cup {file_path}
                /\ processing_lock' = processing_lock \ {file_path}
                /\ wpc' = "idle"
                /\ woutcome' = "raised_read"
                /\ UNCHANGED wartifact
           ELSE /\ wartifact' = artifact_
                /\ UNCHANGED read_failed
                /\ IF should_process(artifact_) = "True"
                   THEN /\ wpc' = "callback"
                        /\ UNCHANGED <<processing_lock, woutcome>>
                   ELSE /\ processing_lock' = processing_lock \ {file_path}
                        /\ wpc' = "idle"
                        /\ woutcome' = IF should_process(artifact_) = "False"
                                       THEN "skipped" ELSE "raised_check"
    /\ UNCHANGED <<wfile, processed_artifacts, wevent, events_seen, completed, second_call>>
    /\ UNCHANGED <<editVars, runVars, synthVars, quoteVars, batchVars, citeVars, configVars,
                   costVars, artifactVars, mergeVars, clock, unifiedVars>>

\* the callback returns: the path is marked processed, the lock released
CallbackReturns ==
    /\ wpc = "callback"
    /\ completed' = completed \cup {wevent.src_path}
    /\ processed_artifacts' = processed_artifacts \cup {wevent.src_path}
    /\ processing_lock' = processing_lock \ {wevent.src_path}
    /\ wpc' = "idle"
    /\ woutcome' = "processed"
    /\ UNCHANGED <<wfile, wevent, wartifact, events_seen, reads, read_failed, second_call>>
    /\ UNCHANGED <<editVars, runVars, synthVars, quoteVars, batchVars, citeVars, configVars,
                   costVars, artifactVars, mergeVars, clock, unifiedVars>>

\* the callback raises: the error is logged, the lock released
CallbackRaises ==
    /\ wpc = "callback"
    /\ processing_lock' = processing_lock \ {wevent.src_path}
    /\ wpc' = "idle"
    /\ woutcome' = "raised_callback"
    /\ UNCHANGED <<wfile, processed_artifacts, wevent, wartifact, events_seen, reads,
                   completed, read_failed, second_call>>
    /\ UNCHANGED <<editVars, runVars, synthVars, quoteVars, batchVars, citeVars, configVars,
                   costVars, artifactVars, mergeVars, clock, unifiedVars>>

\* _process_artifact is called for the path a second time while the first
\* call is blocked: the test of the lock
SecondCall ==
    /\ wpc \in {"sleep", "callback"}
    /\ second_call' = IF wevent.src_path \in processing_lock THEN "returned" ELSE "entered"
    /\ second_call' # second_call
    /\ UNCHANGED <<wfile, processed_artifacts, processing_lock, wpc, wevent, wartifact,
                   events_seen, reads, completed, read_failed, woutcome>>
    /\ UNCHANGED <<editVars, runVars, synthVars, quoteVars, batchVars, citeVars, configVars,
                   costVars, artifactVars, mergeVars, clock, unifiedVars>>

\* a writer (the UI, the pipeline's own progress and report writes) replaces
\* the artifact_ file
FileWritten ==
    /\ \E content \in FileContents \ {wfile} : wfile' = content
    /\ UNCHANGED <<processed_artifacts, processing_lock, wpc, wevent, wartifact,
                   events_seen, reads, completed, read_failed, woutcome, second_call>>
    /\ UNCHANGED <<editVars, runVars, synthVars, quoteVars, batchVars, citeVars, configVars,
                   costVars, artifactVars, mergeVars, clock, unifiedVars>>

NextWatch ==
    OnCreated \/ OnModified \/ LoadArtifact \/ CallbackReturns \/ CallbackRaises
        \/ SecondCall \/ FileWritten

SpecWatch == InitWatch /\ [][NextWatch]_vars

\* ------------------------------------------- the unified report generation
\* unified_scholar_qa.py: generate_report builds one prompt and asks a model
\* for the whole report, through the configured ResponseGenerator or through
\* llm_completion.
MaxReports == 3

\* the texts a generator and llm_completion answer with
GeneratorTexts == {"g1", "g2"}
CompletionTexts == {"c1", "c2"}
Request(by, content) == [by |-> by, content |-> content]

InitUnified ==
    /\ response_generator \in {"None", "configured"}
    /\ unified_pc = "idle"
    /\ requests = <<>>
    /\ response = NoResponse
    /\ parsed_response = NoResponse
    /\ reports = 0
    /\ BatchIdle
    /\ WatchIdle
    /\ CostIdle
    /\ ConfigIdle
    /\ CiteIdle
    /\ QuotesIdle
    /\ SynthIdle
    /\ current_report = <<>>
    /\ section_plans = <<>>
    /\ NoEditCalls
    /\ run_state = "idle"
    /\ mentioned_papers = <<>>
    /\ decision = [has |-> FALSE, value |-> NoDecision]
    /\ edit_plan = [has |-> FALSE, value |-> NoPlan]
    /\ edited_sections = <<>>
    /\ created_sections = <<>>
    /\ calls = <<>>
    /\ final_report = NoFinalReport
    /\ clock = 1
    /\ mTree = NoTree
    /\ NoMergeCall
    /\ file = NoFile("missing")
    /\ file0 = file
    /\ message_id = [w \in Writers |-> "m1"]
    /\ WritersConstructed

\* generate_report is called: the prompt is built, the branch on
\* self.response_generator is taken
GenerateReport ==
    /\ unified_pc \in {"idle", "parsed", "raised"}
    /\ reports < MaxReports
    /\ reports' = reports + 1
    /\ requests' = <<>>
    /\ response' = NoResponse
    /\ parsed_response' = NoResponse
    /\ unified_pc' = IF response_generator # "None" THEN "generator" ELSE "standard"
    /\ UNCHANGED response_generator
    /\ UNCHANGED <<editVars, runVars, synthVars, quoteVars, batchVars, citeVars, configVars,
                   costVars, watchVars, artifactVars, mergeVars, clock>>

\* self.response_generator.generate(prompt) returns a text
GeneratorReturns ==
    /\ unified_pc = "generator"
    /\ \E content \in GeneratorTexts :
         /\ requests' = Append(requests, Request("generator", content))
         /\ response' = Request("generator", content)
    /\ unified_pc' = "second"
    /\ UNCHANGED <<response_generator, parsed_response, reports>>
    /\ UNCHANGED <<editVars, runVars, synthVars, quoteVars, batchVars, citeVars, configVars,
                   costVars, watchVars, artifactVars, mergeVars, clock>>

\* self.response_generator.generate(prompt) raises: the except clause
GeneratorRaises ==
    /\ unified_pc = "generator"
    /\ requests' = Append(requests, Request("generator", "raised"))
    /\ unified_pc' = "fallback"
    /\ UNCHANGED <<response_generator, response, parsed_response, reports>>
    /\ UNCHANGED <<editVars, runVars, synthVars, quoteVars, batchVars, citeVars, configVars,
                   costVars, watchVars, artifactVars, mergeVars, clock>>

\* llm_completion of the except clause and of the else branch: it returns a
\* completion, or its error leaves generate_report
FirstCompletion ==
    /\ unified_pc \in {"fallback", "standard"}
    /\ \/ \E content \in CompletionTexts :
            /\ requests' = Append(requests, Request("llm_completion", content))
            /\ response' = Request("llm_completion", content)
            /\ unified_pc' = "second"
       \/ /\ requests' = Append(requests, Request("llm_completion", "raised"))
          /\ unified_pc' = "raised"
          /\ UNCHANGED response
    /\ UNCHANGED <<response_generator, parsed_response, reports>>
    /\ UNCHANGED <<editVars, runVars, synthVars, quoteVars, batchVars, citeVars, configVars,
                   costVars, watchVars, artifactVars, mergeVars, clock>>

\* the llm_completion after the branches, whose content replaces response
SecondCompletion ==
    /\ unified_pc = "second"
    /\ \/ \E content \in CompletionTexts :
            /\ requests' = Append(requests, Request("llm_completion", content))
            /\ response' = Request("llm_completion", content)
            /\ unified_pc' = "parse"
       \/ /\ requests' = Append(requests, Request("llm_completion", "raised"))
          /\ unified_pc' = "raised"
          /\ UNCHANGED response
    /\ UNCHANGED <<response_generator, parsed_response, reports>>
    /\ UNCHANGED <<editVars, runVars, synthVars, quoteVars, batchVars, citeVars, configVars,
                   costVars, watchVars, artifactVars, mergeVars, clock>>

\* parse_report_title(response), parse_sections(response)
ParseResponse ==
    /\ unified_pc = "parse"
    /\ parsed_response' = response
    /\ unified_pc' = "parsed"
    /\ UNCHANGED <<response_generator, requests, response, reports>>
    /\ UNCHANGED <<editVars, runVars, synthVars, quoteVars, batchVars, citeVars, configVars,
                   costVars, watchVars, artifactVars, mergeVars, clock>>

NextUnified ==
    \/ GenerateReport
    \/ GeneratorReturns
    \/ GeneratorRaises
    \/ FirstCompletion
    \/ SecondCompletion
    \/ ParseResponse

SpecUnified == InitUnified /\ [][NextUnified]_vars

\* ------------------------------------------------- properties of the merge
\* the last call's target message in the tree it was given (0: not there)
mMsg == find_message_in_thread(mBefore, mCall.message_id)
\* the children of message mi of tree t
Kids(t, mi) == ChildrenOf(t.children[mi])
\* the last call found its message, and the message carries a children list
\* (the ArtifactNode shape: an ordered list of child nodes)
mLocated == mCall.op # "none" /\ mMsg # 0 /\ mBefore.children[mMsg].hasChildren

C3_ReapplyBumpsVersion ==
    (mCall.op = "updater" /\ mLocated
        /\ \E i \in 1..Len(Kids(mBefore, mMsg)) : Kids(mBefore, mMsg)[i] = mCall.report) =>
        LET i == FirstIndex(Kids(mBefore, mMsg), mCall.report.id)
        IN  /\ ~mResult.raised
            /\ mResult.value.hasVersion
            /\ mResult.value.version = VersionOf(mBefore) + 1
            /\ Kids(mResult.value, mMsg)[i] = mCall.report

\* C3 witness: the last of the calls re-applied a node the tree already held
C3_Witness_AppliedAgain ==
    /\ mCount = MaxMergeCalls
    /\ mCall.op = "updater" /\ mLocated
    /\ \E i \in 1..Len(Kids(mBefore, mMsg)) : Kids(mBefore, mMsg)[i] = mCall.report
    /\ mResult.value.version = VersionOf(mBefore) + 1

\* C7: add_report_to_message and update_report_in_message leave the tree they
\* are given as it was, in every branch, and return another object.
C7_CopyOnWrite ==
    (mCall.op \in {"add", "update"}) =>
        /\ mArg = mBefore
        /\ ~mResult.raised => mResult.fresh

\* C7 witness: update_report_in_message replaced a node
C7_Witness_Replaced ==
    /\ mCall.op = "update"
    /\ ~mResult.raised
    /\ mResult.value # mBefore
    /\ mArg = mBefore

\* C8: when no direct child of the thread has the target message id the merge
\* returns a tree equal to its input (nothing added, version and updatedAt as
\* they were) and raises nothing.
C8_LocateMiss ==
    (mCall.op # "none" /\ mMsg = 0) =>
        /\ ~mResult.raised
        /\ mResult.value = mBefore

\* C8 witness: a merge through the updater that named a message the tree lacks
C8_Witness_Miss ==
    /\ mCall.op = "updater"
    /\ mMsg = 0
    /\ mCount > 1
    /\ mResult.value = mBefore

\* ------------------------------------------------ properties of the writers
WritePcs == {"mkstemp", "dump", "dumping", "move"}
FileVersion == IF file.kind = "tree" THEN VersionOf(file.tree) ELSE 0
\* writer w's call ends in this step with update_artifact returning `ok`
Returns(w, ok) == pc[w] # "idle" /\ pc'[w] = "idle" /\ success'[w] = ok

\* C2: every merge of a node into a located message, appended or replaced,
\* raises the thread version by exactly 1; with a single writer the version of
\* the file is the initial version plus the number of merges written.
C2_VersionPlusOne ==
    /\ \A w \in Writers :
         (pc[w] \in WritePcs /\ HoldsNode(updated[w], w)) =>
             /\ updated[w].hasVersion
             /\ updated[w].version = VersionOf(artifact[w]) + 1
    /\ \A w \in Writers :
         ((\A o \in Writers \ {w} : obj_version[o] = 0) /\ file.kind = "tree") =>
             FileVersion = VersionOf(file0.tree) + merged[w]

\* C2 witness: the progress writer alone merged twice, 5 -> 6 -> 7
C2_Witness_TwoMerges ==
    /\ obj_version["w1"] = 0
    /\ merged["w2"] = 2
    /\ file0.kind = "tree" /\ file0.tree.hasVersion
    /\ FileVersion = file0.tree.version + 2
    /\ Len(Kids(file.tree, 1)) = Len(Kids(file0.tree, 1)) + 1

\* C4: the artifact path changes only in the rename step of a write, and then
\* to the writer's whole new tree: no step of a write, failed or abandoned
\* writes included, shows a reader anything but the previous or the new tree.
C4_AtomicWrite ==
    [][ \/ file' = file
        \/ \E w \in Writers :
             /\ pc[w] = "move"
             /\ Returns(w, "True")
             /\ file' = TreeFile(updated[w]) ]_vars

\* C4 witness: a write abandoned with a partly written temp file, the artifact
\* path still holding the previous tree
C4_Witness_AbandonedMidWrite ==
    /\ \E w \in Writers : pc[w] = "abandoned" /\ tmp[w] = "partial"
    /\ file.kind = "tree"
    /\ file = file0

\* C5: nothing compares the file with what the writer read: a write whose read
\* is stale (the file changed since) still returns True and replaces the file
\* by the tree computed from the stale read, so the other writer's merge is lost.
C5_StaleWriteWins ==
    [][ \A w \in Writers :
          (pc[w] = "move" /\ Returns(w, "True") /\ file # TreeFile(artifact[w])) =>
              /\ file' = TreeFile(updated[w])
              /\ HoldsNode(updated[w], w) =>
                    VersionOf(file'.tree) = VersionOf(artifact[w]) + 1 ]_vars

\* C5 witness: both writers merged once and were told True, yet the file holds
\* one writer's node only and its version went up by 1
C5_Witness_LostUpdate ==
    /\ \A w \in Writers :
         pc[w] = "idle" /\ obj_version[w] = 1 /\ success[w] = "True" /\ merged[w] = 1
    /\ file.kind = "tree"
    /\ FileVersion = VersionOf(file0.tree) + 1
    /\ Cardinality({w \in Writers :
            get_report_from_message(file.tree, message_id[w], NodeId(w)) # 0}) = 1

\* C6: the version of the thread in the file never decreases, whatever the
\* interleaving of the writers' merges.
C6_VersionMonotonic ==
    [][FileVersion' >= FileVersion]_vars

\* C9: update_artifact returns False without calling the updater and without
\* creating a file when the file is missing or unreadable; a write ends either
\* with True and the new tree in place or with False and the file as it was;
\* an exception of the updater gives False with the file as it was; and no
\* exception reaches the writer's caller.
C9_FailClosed ==
    [][ \A w \in Writers :
          /\ (pc[w] = "read" /\ file.kind # "tree" /\ pc'[w] # "read") =>
                /\ Returns(w, "False")
                /\ ~called'[w]
                /\ file' = file /\ tmp' = tmp
          /\ (pc[w] \in WritePcs /\ pc'[w] = "idle") =>
                \/ success'[w] = "True" /\ pc[w] = "move" /\ file' = TreeFile(updated[w])
                \/ success'[w] = "False" /\ file' = file /\ tmp'[w] = "none"
          /\ (pc[w] = "updater" /\ pc'[w] # "updater"
                /\ updater(artifact[w], message_id[w], report[w], Now(w)).raised) =>
                /\ Returns(w, "False")
                /\ file' = file /\ tmp' = tmp
          /\ pc'[w] # "raised" ]_vars

\* C9 witness: the updater raised on a message without a children list, the
\* writer was told False and the file is as it was
C9_Witness_UpdaterRaised ==
    \E w \in Writers :
        /\ pc[w] = "idle" /\ success[w] = "False" /\ called[w]
        /\ obj_version[w] = MaxCalls
        /\ file.kind = "tree" /\ file = file0
        /\ find_message_in_thread(file.tree, message_id[w]) # 0
        /\ ~file.tree.children[find_message_in_thread(file.tree, message_id[w])].hasChildren

\* ---------------------------------------------- properties of the section step
\* C10: for a plan entry with action KEEP the section step makes no completion
\* call and returns the input section itself, its text equal to the input's,
\* with no completion result.
C10_KeepFastPath ==
    /\ \A n \in 1..Len(llm_log) : llm_log[n].edit_action # "keep"
    /\ (edit_count > 0 /\ edit_call.section_plan.action = "keep") =>
          /\ ~edit_result.raised
          /\ edit_result.has_section
          /\ edit_result.section = edit_call.section
          /\ edit_result.section.text = current_report[edit_call.section_index + 1].text
          /\ ~edit_result.has_response
          /\ edit_result.prompts = <<>>

\* C10 witness: a KEEP step after a step that did call the completion
C10_Witness_KeptAfterEdit ==
    /\ edit_count > 1
    /\ edit_call.section_plan.action = "keep"
    /\ Len(llm_log) = 1
    /\ edit_result.section.text = "text B"

\* ------------------------------------------------- properties of the edit run
\* the entries of the plan that have had their section step
PlanLen == Len(edit_plan.value.section_plans)
\* the run has a plan whose entries, in order, have these actions, and no new
\* sections
PlanIs(actions) ==
    /\ edit_plan.has
    /\ edit_plan.value.new_sections = <<>>
    /\ PlanLen = Len(actions)
    /\ \A k \in 1..PlanLen :
          /\ edit_plan.value.section_plans[k].action = actions[k]
          /\ edit_plan.value.section_plans[k].section_index = k - 1

\* C11: for a plan entry with action DELETE the section step makes no
\* completion call and gives no section, the section is not in the report the
\* run returns, and the plan [DELETE, KEEP] over a two-section report gives
\* exactly one section, the second, with no completion call for a section.
C11_DeleteFastPath ==
    /\ \A n \in 1..Len(llm_log) : llm_log[n].edit_action # "delete"
    /\ (edit_count > 0 /\ edit_call.section_plan.action = "delete") =>
          /\ ~edit_result.raised
          /\ ~edit_result.has_section
          /\ ~edit_result.has_response
          /\ edit_result.prompts = <<>>
          /\ ~edited_sections[edit_call.section_index + 1].has_section
    /\ (run_state = "DONE" /\ PlanIs(<<"delete", "keep">>)) =>
          /\ final_report.sections = <<current_report[2]>>
          /\ llm_log = <<>>
          /\ \A n \in 1..Len(calls) : calls[n].stage # "APPLY_SECTION_EDITS"

\* C11 witness: the run of the plan [DELETE, KEEP] has returned one section
C11_Witness_DeleteThenKeep ==
    /\ run_state = "DONE"
    /\ PlanIs(<<"delete", "keep">>)
    /\ Len(current_report) = 2
    /\ Len(final_report.sections) = 1
    /\ Len(calls) = 2

\* the entries among the first k of the plan whose action is neither KEEP nor
\* DELETE, in plan order
Generating(k) ==
    LET F[i \in 0..k] ==
            IF i = 0 THEN <<>>
            ELSE IF edit_plan.value.section_plans[i].action \in {"keep", "delete"}
                 THEN F[i - 1] ELSE Append(F[i - 1], i)
    IN  F[k]

\* C12: the completion calls made for sections are as many as the entries of
\* the plan, among those that have had their step, whose action is neither KEEP
\* nor DELETE, the n-th call being the call for the n-th such entry; for the
\* plan [EXPAND, KEEP] exactly one call is made, for Section 1, and the text of
\* Section 2 in the report returned is the input's.
C12_OneCallPerEditingEntry ==
    /\ Len(llm_log) = Len(Generating(edit_count))
    /\ \A n \in 1..Len(llm_log) :
          LET section_plan == edit_plan.value.section_plans[Generating(edit_count)[n]]
          IN  /\ llm_log[n].edit_action = section_plan.action
              /\ llm_log[n].section_title =
                    current_report[section_plan.section_index + 1].title
    /\ Cardinality({n \in 1..Len(calls) : calls[n].stage = "APPLY_SECTION_EDITS"})
          = Len(llm_log)
    /\ (run_state = "DONE" /\ PlanIs(<<"expand", "keep">>)) =>
          /\ Len(llm_log) = 1
          /\ llm_log[1].section_title = current_report[1].title
          /\ Len(final_report.sections) = 2
          /\ final_report.sections[2].text = current_report[2].text

\* C12 witness: the run of the plan [EXPAND, KEEP] has returned, one call made
\* and Section 1 rewritten
C12_Witness_ExpandThenKeep ==
    /\ run_state = "DONE"
    /\ PlanIs(<<"expand", "keep">>)
    /\ Len(llm_log) = 1
    /\ final_report.sections[1].text # current_report[1].text
    /\ final_report.sections[2] = current_report[2]

\* the n-th completion call of the run was one for a section, edited or new
ForSection(n) == calls[n].stage \in {"APPLY_SECTION_EDITS", "CREATE_NEW_SECTION"}

\* C13: when the completion of a section edit or of a new section fails, the
\* step raises and gives no section, the run fails there (that call is its
\* last) and returns no report; a report is returned only when every entry of
\* the plan has had its step and every new section was created, no completion
\* having failed.
C13_NoPartialEdit ==
    /\ \A n \in 1..Len(calls) :
          (ForSection(n) /\ calls[n].llm.raises) =>
              /\ run_state = "FAILED"
              /\ n = Len(calls)
    /\ (edit_count > 0 /\ edit_result.raised) =>
          /\ ~edit_result.has_section
          /\ ~edit_result.has_response
          /\ run_state = "FAILED"
    /\ run_state = "FAILED" => ~final_report.has
    /\ final_report.has =>
          /\ run_state = "DONE"
          /\ edit_count = PlanLen
          /\ Len(created_sections) = Len(edit_plan.value.new_sections)
          /\ \A n \in 1..Len(calls) : ~calls[n].llm.raises
          /\ \A k \in 1..PlanLen :
                edited_sections[edit_plan.value.section_plans[k].section_index + 1].stepped

\* C13 witness: the second section edit of a run failed after the first had
\* given its section, and the run failed with no report
C13_Witness_SecondEditFailed ==
    /\ run_state = "FAILED"
    /\ edit_count = 2
    /\ Len(llm_log) = 2
    /\ edit_result.raised
    /\ edited_sections[1].stepped
    /\ edited_sections[1].section.text # current_report[1].text
    /\ ~final_report.has

\* the place of a call's stage in DECIDE_SEARCH -> GENERATE_PLAN ->
\* APPLY_SECTION_EDITS (new sections after the existing ones)
StageRank(stage) ==
    CASE stage = "DECIDE_SEARCH" -> 1
      [] stage = "GENERATE_PLAN" -> 2
      [] stage = "APPLY_SECTION_EDITS" -> 3
      [] stage = "CREATE_NEW_SECTION" -> 4
\* every section step and every creation of the plan has returned
AllSectionStepsDone ==
    /\ edit_plan.has
    /\ edit_count = PlanLen
    /\ Len(created_sections) = Len(edit_plan.value.new_sections)

\* C14: the completion calls of a run are made in the order of the stages: the
\* first is the search decision, a plan completion is made only after the
\* decision was returned, a section completion only when a plan exists, and
\* ASSEMBLE is entered (and a report returned) only after every section step
\* has returned; when the search decision's completion fails or its content
\* does not parse the run fails with that one call made, no decision, no plan.
C14_StageOrder ==
    /\ \A m \in 1..Len(calls), n \in 1..Len(calls) :
          m < n => StageRank(calls[m].stage) <= StageRank(calls[n].stage)
    /\ \A n \in 1..Len(calls) :
          /\ calls[n].stage = "DECIDE_SEARCH" <=> n = 1
          /\ calls[n].stage = "GENERATE_PLAN" => (n = 2 /\ decision.has)
          /\ ForSection(n) => (n > 2 /\ decision.has /\ edit_plan.has)
    /\ edit_plan.has => decision.has
    /\ run_state = "DECIDE_SEARCH" => (calls = <<>> /\ ~decision.has)
    /\ run_state = "GENERATE_PLAN" => (Len(calls) = 1 /\ decision.has /\ ~edit_plan.has)
    /\ run_state = "APPLY_SECTION_EDITS" => edit_plan.has
    /\ run_state \in {"ASSEMBLE", "DONE"} => AllSectionStepsDone
    /\ final_report.has <=> run_state = "DONE"
    /\ (Len(calls) > 0
          /\ \/ calls[1].llm.raises
             \/ ~calls[1].llm.content.valid_json
             \/ ~calls[1].llm.content.has_needs_search
             \/ ~calls[1].llm.content.has_reasoning) =>
          /\ run_state = "FAILED"
          /\ Len(calls) = 1
          /\ ~decision.has
          /\ ~edit_plan.has
          /\ edit_count = 0

\* C14 witness: a run that went through every stage, with section edits and a
\* new section, and returned its report
C14_Witness_AllStages ==
    /\ run_state = "DONE"
    /\ Len(calls) >= 4
    /\ \E n \in 1..Len(calls) : calls[n].stage = "APPLY_SECTION_EDITS"
    /\ calls[Len(calls)].stage = "CREATE_NEW_SECTION"
    /\ decision.value.needs_search

\* ------------------------------------------------- properties of the planner
\* the planning completion of the run has been made
Planned == Len(calls) >= 2 /\ calls[2].stage = "GENERATE_PLAN"

\* C15: when the planning completion fails, or its content is not a JSON
\* object, lacks 'cot' or 'section_plans', or carries an entry whose action is
\* no value of EditAction, step_generate_edit_plan raises: the run has no plan
\* (no default, no empty plan) and ends there; a plan that is returned is the
\* one the content carries.
C15_PlanFailureIsFatal ==
    Planned =>
        LET llm == calls[2].llm
            bad == \/ llm.raises
                   \/ ~llm.content.valid_json
                   \/ ~llm.content.has_cot
                   \/ ~llm.content.has_section_plans
                   \/ \E i \in 1..Len(llm.content.section_plans) :
                         llm.content.section_plans[i].action \notin EditActions
        IN  /\ bad => /\ ~edit_plan.has
                      /\ edit_plan.value = NoPlan
                      /\ run_state = "FAILED"
                      /\ Len(calls) = 2
                      /\ edit_count = 0
            /\ ~bad => /\ edit_plan.has
                       /\ edit_plan.value.section_plans = llm.content.section_plans
                       /\ edit_plan.value.new_sections = llm.content.new_sections

\* C15 witness: a planning content that is JSON with all keys but names an
\* action EditAction lacks: no plan, the run failed
C15_Witness_PlanRejected ==
    /\ Planned
    /\ ~calls[2].llm.raises
    /\ calls[2].llm.content.valid_json
    /\ calls[2].llm.content.has_cot /\ calls[2].llm.content.has_section_plans
    /\ Len(calls[2].llm.content.section_plans) = 2
    /\ run_state = "FAILED"
    /\ ~edit_plan.has

\* C16: every section title of the input report appears in the plan the
\* planner returns exactly once, with an action of the enumerated set.
C16_PlanCoverage ==
    edit_plan.has =>
        \A i \in 1..Len(current_report) :
            /\ Cardinality({k \in 1..PlanLen :
                    edit_plan.value.section_plans[k].section_title
                        = current_report[i].title}) = 1
            /\ \A k \in 1..PlanLen :
                    edit_plan.value.section_plans[k].action \in EditActions

\* the six actions of the prompt directive and of the specification
DirectiveActions == {"keep", "expand", "add_to", "replace", "delete", "new"}

\* C17: the action of every entry of a parsed plan is one of KEEP, EXPAND,
\* ADD_TO, REPLACE, DELETE, NEW, and a planning content whose entries carry
\* only these six is parsed into a plan.
C17_SixActions ==
    /\ edit_plan.has =>
          \A k \in 1..PlanLen :
              edit_plan.value.section_plans[k].action \in DirectiveActions
    /\ (/\ Planned
        /\ ~calls[2].llm.raises
        /\ calls[2].llm.content.valid_json
        /\ calls[2].llm.content.has_cot
        /\ calls[2].llm.content.has_section_plans
        /\ \A i \in 1..Len(calls[2].llm.content.section_plans) :
              calls[2].llm.content.section_plans[i].action \in DirectiveActions)
          => edit_plan.has

\* ------------------------------------------------------ properties of ASSEMBLE
\* the action the plan's last entry for section i (counted from 1) carries,
\* "none" when the plan has no entry for it
LastAction(i) ==
    LET ks == {k \in 1..PlanLen : edit_plan.value.section_plans[k].section_index = i - 1}
    IN  IF ks = {} THEN "none"
        ELSE edit_plan.value.section_plans[CHOOSE k \in ks : \A j \in ks : j <= k].action
\* the content of the last section completion made for section i
LastContent(i) ==
    LET ns == {n \in 1..Len(calls) :
                 calls[n].stage = "APPLY_SECTION_EDITS" /\ calls[n].target = i - 1}
    IN  calls[CHOOSE n \in ns : \A m \in ns : m <= n].llm.content
\* the sections of the report that no DELETE removes, in the report's order
Kept ==
    LET F[i \in 0..Len(current_report)] ==
            IF i = 0 THEN <<>>
            ELSE IF LastAction(i) = "delete" THEN F[i - 1] ELSE Append(F[i - 1], i)
    IN  F[Len(current_report)]

\* C18: the report a run returns holds, first, the sections of the input report
\* that were not deleted, in their original order, each the input section
\* itself when it was kept and the input section with the completion's text in
\* its place when it was edited, and then the plan's new sections in the
\* plan's order.
C18_AssembleOrder ==
    final_report.has =>
        LET out == final_report.sections
            news == edit_plan.value.new_sections
        IN  /\ Len(out) = Len(Kept) + Len(news)
            /\ \A p \in 1..Len(Kept) :
                  LET i == Kept[p]
                  IN  /\ out[p].title = current_report[i].title
                      /\ out[p].tldr = current_report[i].tldr
                      /\ out[p].citations = current_report[i].citations
                      /\ IF LastAction(i) \in {"keep", "none"}
                         THEN out[p] = current_report[i]
                         ELSE out[p].text = LastContent(i)
            /\ \A j \in 1..Len(news) :
                  /\ out[Len(Kept) + j].title = news[j].title
                  /\ out[Len(Kept) + j] = created_sections[j]
                  /\ \E n \in 1..Len(calls) :
                        /\ calls[n].stage = "CREATE_NEW_SECTION"
                        /\ calls[n].target = j - 1
                        /\ out[Len(Kept) + j].text = calls[n].llm.content

\* C18 witness: a plan that names Section 2 first (to be modified) and keeps
\* Section 1, with a new section: the report is Section 1, the new Section 2,
\* the new section
C18_Witness_EditedInPlaceThenNew ==
    /\ run_state = "DONE"
    /\ PlanLen = 2
    /\ edit_plan.value.section_plans[1].section_index = 1
    /\ edit_plan.value.section_plans[1].action = "modify"
    /\ edit_plan.value.section_plans[2].action = "keep"
    /\ Len(final_report.sections) = 3
    /\ final_report.sections[1] = current_report[1]
    /\ final_report.sections[2].title = current_report[2].title
    /\ final_report.sections[2].text # current_report[2].text
    /\ final_report.sections[3].title = edit_plan.value.new_sections[1].title

\* --------------------------------------------- properties of the synthesizer
\* the dimensions among the first k of the plan that take a completion call
Written(k) ==
    LET F[i \in 0..k] ==
            IF i = 0 THEN <<>>
            ELSE IF plan_dimensions[i].action \in {"KEEP", "DELETE"}
                 THEN F[i - 1] ELSE Append(F[i - 1], i)
    IN  F[k]
\* the texts, markers stripped, of the sections yielded for dimensions before d
WrittenBefore(d) ==
    LET F[j \in 0..Len(yielded)] ==
            IF j = 0 THEN <<>>
            ELSE IF yielded[j].dimension < d
                 THEN Append(F[j - 1], strip_citations(yielded[j].text))
                 ELSE F[j - 1]
    IN  F[Len(yielded)]

\* C19: the synthesizer goes through the plan in plan order: its n-th
\* completion call is the call for the n-th dimension that takes one, and the
\* already-written context of that call is exactly the texts (markers
\* stripped) of the sections produced for the dimensions before it, in order;
\* the sections are yielded in plan order.
C19_SequentialFold ==
    /\ Len(synth_log) = Len(Written(dim_index))
    /\ \A n \in 1..Len(synth_log) :
          LET d == Written(dim_index)[n]
          IN  /\ synth_log[n].section_name = plan_dimensions[d].name
              /\ synth_log[n].action = plan_dimensions[d].action
              /\ synth_log[n].already_written = WrittenBefore(d)
              /\ (~synth_log[n].llm.raises) =>
                    \E j \in 1..Len(yielded) :
                        /\ yielded[j].dimension = d
                        /\ yielded[j].text = synth_log[n].llm.content
    /\ \A i \in 1..Len(yielded), j \in 1..Len(yielded) :
          i < j => yielded[i].dimension < yielded[j].dimension
    /\ already_written = WrittenBefore(dim_index + 1)

\* C19 witness: the third completion call of a run was given the two texts
\* written before it, the first with its citation marker stripped
C19_Witness_ThirdSeesTwo ==
    /\ Len(synth_log) = 3
    /\ Len(synth_log[3].already_written) = 2
    /\ synth_log[1].llm.content = <<"alpha", Cite1>>
    /\ synth_log[3].already_written[1] = <<"alpha">>
    /\ synth_log[2].already_written = <<<<"alpha">>>>

\* C20 (quote filtering): the mapping the extractor returns never holds a quote
\* that equals "none" in any letter case, whose first token is "None" (as in
\* "None\nExtra text"), or that is shorter than 10 characters; of three
\* references answered with a valid quote, "None" and "None\nExtra text"
\* exactly one is retained.
C20_QuoteFiltering ==
    /\ \A j \in 1..Len(per_paper_summaries) :
         LET quote == per_paper_summaries[j].quote
         IN  /\ lower(quote) # <<"n", "o", "n", "e">>
             /\ first_token(quote) # <<"N", "o", "n", "e">>
             /\ Len(quote) >= 10
    /\ (quotes_state = "done" /\ quote_responses = NoneResponses)
         => /\ Len(per_paper_summaries) = 1
            /\ per_paper_summaries[1].quote = ValidQuote
C20_Witness_OneOfThreeRetained ==
    /\ quotes_state = "done"
    /\ quote_responses = NoneResponses
    /\ Len(per_paper_summaries) = 1

\* the scored references' results in scored order, whatever the arrival was
InScoredOrder ==
    [i \in 1..Len(quote_responses) |->
        [key |-> reference_key(i), response |-> quote_responses[i]]]
\* C21 (index stability): the quotes the extractor returns are in the order
\* of their citation keys and are the same sequence for every order in which
\* the workers returned; the planner is invoked with that sequence, and the
\* synthesizer's lookup of a plan index gives the entry the planner saw at
\* that index.
C21_IndexStability ==
    /\ quotes_state \in {"done", "planned"} =>
         /\ \A j, k \in 1..Len(per_paper_summaries) :
              j < k => key_less(per_paper_summaries[j].key, per_paper_summaries[k].key)
         /\ per_paper_summaries = step_select_quotes_edit(InScoredOrder)
    /\ quotes_state = "planned" => planner_input = per_paper_summaries
    /\ \A d \in 1..Len(resolved) :
         LET known == SelectSeq(quote_plan[d], LAMBDA i : i + 1 \in 1..Len(planner_input))
         IN  /\ Len(resolved[d]) = Len(known)
             /\ \A n \in 1..Len(known) : resolved[d][n] = planner_input[known[n] + 1]
C21_Witness_LateArrivalSameIndices ==
    /\ quotes_state = "planned"
    /\ arrived = <<3, 1, 2>>
    /\ Len(per_paper_summaries) = 3
    /\ per_paper_summaries[1].key = reference_key(3)
    /\ Len(resolved) = 2
    /\ quote_plan[2] = <<2, 7>>
    /\ resolved[2] = <<planner_input[3]>>

\* the last round of the call that was logged
LastRound == batch_log[Len(batch_log)]
\* the messages whose response did not parse in the last round
FailedInLastRound ==
    {LastRound.sent[j] : j \in {k \in 1..Len(LastRound.responses) :
                                   ~LastRound.responses[k].parses}}
\* C22 (per-item failure isolation): a completion that cannot be obtained or
\* parsed for one message does not make the call raise when other messages
\* have their results; the call returns the results of the other messages.
C22_FailureIsolation ==
    (batch_state = "raised" /\ \E i \in 1..batch_messages : results[i].has)
        => FailedInLastRound = {}

\* the messages whose response did not parse in round r of the log
FailedIn(r) ==
    {batch_log[r].sent[j] : j \in {k \in 1..Len(batch_log[r].responses) :
                                      ~batch_log[r].responses[k].parses}}
\* the members of a sequence
Members(seq) == {seq[j] : j \in 1..Len(seq)}
\* the rounds of the call so far are bounded, each resends what has no result,
\* and a parse error is raised in the last round only
BoundedRounds ==
    /\ Len(batch_log) <= NUM_RETRIES + 1
    /\ \A r \in 1..Len(batch_log) :
         /\ Members(batch_log[r].sent) =
              IF r = 1 THEN 1..batch_messages ELSE FailedIn(r - 1)
         /\ Len(batch_log[r].sent) = Cardinality(Members(batch_log[r].sent))
         /\ (batch_log[r].raised /\ batch_log[r].responses # <<>>) => r = NUM_RETRIES + 1
\* C23 (bounded retry): batch_llm_completion ends, returning or raising,
\* after at most NUM_RETRIES + 1 rounds; each round sends exactly the messages
\* that have no parsed result yet; a message's parse error is raised to the
\* caller in the last round only.
C23_BoundedRetry ==
    /\ []BoundedRounds
    /\ <>(batch_state \in {"returned", "raised"})
C23_Witness_RaisedInFourthRound ==
    /\ batch_state = "raised"
    /\ Len(batch_log) = NUM_RETRIES + 1
    /\ batch_messages = 3
    /\ Len(LastRound.sent) = 1
    /\ FailedInLastRound # {}

\* the keys of the entries build_per_paper_summaries returned
SummaryKeys ==
    {summaries.per_paper_summaries_extd[j].key :
        j \in 1..Len(summaries.per_paper_summaries_extd)}
LiteConfigMissing ==
    \/ ~report_generation_args.given
    \/ "model" \notin report_generation_args.keys
\* C25 (missing configuration is fatal at construction): ScholarQALite()
\* without report_generation_args or without a 'model' key in it, and
\* ModalResponseGenerator() without an API key from its argument or the
\* environment, raise ValueError; an instance that exists has its model key
\* and its API key, and its first use never fails for the lack of them.
C25_FatalAtConstruction ==
    /\ lite.state # "none" => (LiteConfigMissing <=> lite.state = "ValueError")
    /\ lite.state \in {"constructed", "used"} => "model" \in lite.report_generation_args.keys
    /\ lite.state # "KeyError"
    /\ modal.state = "ValueError" => (~truthy(api_key_arg) /\ ~truthy(environ))
    /\ modal.state \in {"constructed", "used"} => truthy(modal.api_key)
    /\ modal.state # "Unauthorized"
C25_Witness_BothRefused ==
    /\ report_generation_args = Args({"temperature"})
    /\ lite.state = "ValueError"
    /\ api_key_arg = ""
    /\ modal.state = "ValueError"

\* the STEP_PROGRESS node of the progress writer in the file, if it is there
Persisted ==
    LET w == "w2"
        i == IF file.kind = "tree"
             THEN get_report_from_message(file.tree, message_id[w], NodeId(w)) ELSE 0
        mi == find_message_in_thread(file.tree, message_id[w])
    IN  IF i = 0 THEN [has |-> FALSE, steps |-> <<>>]
        ELSE [has |-> TRUE, steps |-> ChildrenOf(file.tree.children[mi])[i].data]
\* the message the progress writer names is in the thread of the file
TargetInFile ==
    file.kind = "tree" /\ find_message_in_thread(file.tree, message_id["w2"]) # 0
\* the report writer has made no call: the progress writer is the only writer
OnlyProgressWriter == obj_version["w1"] = 0
IsPrefix(a, b) == Len(a) <= Len(b) /\ SubSeq(b, 1, Len(a)) = a
\* what is persisted is a prefix of the steps added, and all of them after a
\* write that succeeded
ProgressPersisted ==
    OnlyProgressWriter =>
        /\ Persisted.has => (Persisted.steps # <<>> /\ IsPrefix(Persisted.steps, steps["w2"]))
        /\ (pc["w2"] = "idle" /\ success["w2"] = "True" /\ TargetInFile)
             => (Persisted.has /\ Persisted.steps = steps["w2"])
\* a step of the system never shrinks or reorders what is persisted
ProgressExtends ==
    (OnlyProgressWriter' /\ Persisted.has)
        => (Persisted'.has /\ IsPrefix(Persisted.steps, Persisted'.steps))
\* C26 (progress accumulation): with the progress writer as the only writer
\* and its message in the thread, after a call of add_step whose write
\* succeeded the persisted STEP_PROGRESS node holds every step added so far in
\* call order, also those of calls whose write had failed; each persisted
\* steps list extends the one before.
C26_ProgressAccumulates ==
    /\ []ProgressPersisted
    /\ [][ProgressExtends]_vars
C26_Witness_FailedStepPersistedLater ==
    /\ OnlyProgressWriter
    /\ obj_version["w2"] = 2
    /\ pc["w2"] = "idle"
    /\ success["w2"] = "True"
    /\ merged["w2"] = 1
    /\ Persisted.has
    /\ Persisted.steps = <<"step1", "step2">>

\* positions of the located message's children that the call changed or added
ChangedKids ==
    LET kids == Kids(mBefore, mMsg)
        out  == Kids(mResult.value, mMsg)
    IN  { j \in 1..Len(out) : j > Len(kids) \/ out[j] # kids[j] }

\* the thread without the two fields a merge stamps
ThreadFrame(t) == [id |-> t.id, type |-> t.type, messages |-> Len(t.children)]
\* a message without its children
MessageFrame(m) == [id |-> m.id, type |-> m.type, hasChildren |-> m.hasChildren]

\* C27 (merge frame): a merge changes only the thread's version and updatedAt
\* and the one target node inside the located message; every other message,
\* every sibling of the target node (its version included) and all other
\* thread fields are equal before and after the merge.
C27_MergeFrame ==
    (mCall.op # "none") =>
        LET out == mResult.value
        IN  /\ ThreadFrame(out) = ThreadFrame(mBefore)
            /\ \A j \in 1..Len(mBefore.children) :
                    j # mMsg => out.children[j] = mBefore.children[j]
            /\ mMsg # 0 =>
                  /\ MessageFrame(out.children[mMsg]) = MessageFrame(mBefore.children[mMsg])
                  /\ Len(Kids(out, mMsg)) >= Len(Kids(mBefore, mMsg))
                  /\ Cardinality(ChangedKids) <= 1
                  /\ \A j \in ChangedKids :
                        /\ Kids(out, mMsg)[j] = mCall.report
                        /\ j = FirstIndex(Kids(out, mMsg), mCall.report.id)

\* C27 witness: update_report_in_message replaced a node that has a sibling in
\* its message, in a thread with another message
C27_Witness_ReplacedBesideSibling ==
    /\ mCall.op = "update"
    /\ mMsg # 0
    /\ Len(mBefore.children) > 1
    /\ ChangedKids # {}
    /\ \E j \in 1..Len(Kids(mBefore, mMsg)) :
            /\ j \notin ChangedKids
            /\ Kids(mBefore, mMsg)[j].id # mCall.report.id
            /\ Kids(mBefore, mMsg)[j].version # mCall.report.version
    /\ mResult.value.version = VersionOf(mBefore) + 1

\* the last call of step_execute_section_edit issued a completion and returned
EditedByCompletion ==
    /\ edit_count > 0
    /\ edit_call.section_plan.action \notin {"keep", "delete"}
    /\ ~edit_result.raised

\* C28 (edited section frame): for every action other than KEEP and DELETE the
\* edited section has the original section's title, tldr and citations, its
\* text is the completion's content as it came, and its table is the original
\* table except under REPLACE, where the table is cleared.
C28_EditedSectionFrame ==
    EditedByCompletion =>
        /\ edit_result.has_section /\ edit_result.has_response
        /\ edit_result.section.title = edit_call.section.title
        /\ edit_result.section.tldr = edit_call.section.tldr
        /\ edit_result.section.citations = edit_call.section.citations
        /\ edit_result.section.text = edit_result.response
        /\ edit_result.section.text \in {o.content : o \in LlmOutcomes}
        /\ edit_result.section.table =
              IF edit_call.section_plan.action = "replace"
              THEN "None" ELSE edit_call.section.table

\* C28 witness: a REPLACE of a section that has a table and citations, after
\* an edit with another action
C28_Witness_ReplaceClearedTable ==
    /\ EditedByCompletion
    /\ edit_count > 1
    /\ edit_call.section_plan.action = "replace"
    /\ edit_call.section.table # "None"
    /\ edit_call.section.citations # <<>>
    /\ edit_result.section.table = "None"
    /\ edit_result.section.text # edit_call.section.text

\* the last call of step_execute_section_edit built a prompt
PromptBuilt ==
    /\ edit_count > 0
    /\ edit_call.section_plan.action \notin {"keep", "delete"}

\* the context entry of a section: its title, and its tldr when it has one
ContextEntry(section) ==
    IF section.tldr \in {"None", ""} THEN <<section.title>>
    ELSE <<section.title, section.tldr>>

\* the entries of every section of the report but section i (counted from 0)
OtherSections(i) ==
    [j \in 1..(Len(current_report) - 1) |->
        ContextEntry(current_report[IF j <= i THEN j ELSE j + 1])]

\* the new papers of the plan entry of section i that have paper data
OwnNewPapers(i) ==
    LET HasData(pid) == pid \in papers_data
    IN  SelectSeq(section_plans[i + 1].new_papers, HasData)

\* C29 (input confinement): for the edit of section i the report context of the
\* prompt omits section i and lists every other section, and the reference
\* list is section i's citations followed by the ids of section i's own
\* new_papers that are in papers_data; the new_papers of another section's
\* plan entry are not in it, and an id without paper data is skipped.
C29_InputsConfined ==
    PromptBuilt =>
        LET i == edit_call.section_index
            prompt == edit_result.prompts[1]
        IN  /\ Len(edit_result.prompts) = 1
            /\ edit_call.section = current_report[i + 1]
            /\ prompt.full_report_context = OtherSections(i)
            /\ prompt.section_references =
                    current_report[i + 1].citations \o OwnNewPapers(i)
            /\ \A k \in 1..Len(prompt.section_references) :
                    prompt.section_references[k] \in papers_data
                        \/ k <= Len(current_report[i + 1].citations)

\* C29 witness: section 0 edited with new_papers of which one has no paper
\* data while the plan entry of section 1 names new papers too; the call returned
C29_Witness_AbsentIdSkipped ==
    /\ PromptBuilt
    /\ ~edit_result.raised
    /\ edit_call.section_index = 0
    /\ \E k \in 1..Len(section_plans[1].new_papers) :
            section_plans[1].new_papers[k] \notin papers_data
    /\ section_plans[2].new_papers # <<>>
    /\ Len(edit_result.prompts[1].section_references) = 2
    /\ Len(edit_result.prompts[1].full_report_context) = 1

\* the step results handed to the caller so far
Consumed == SubSeq(step_results, 1, cost_pos)
CompletionOf(step_result) == step_result.completion_costs.items[1]
\* a KEEP or DELETE entry and an entry with a completion are among them
MixedConsumed ==
    /\ \E i \in 1..cost_pos : CompletionOf(step_results[i]).none
    /\ \E i \in 1..cost_pos : ~CompletionOf(step_results[i]).none
\* the completions issued for them
IssuedCompletions ==
    LET Issued(step_result) == ~CompletionOf(step_result).none
        kept == SelectSeq(Consumed, Issued)
    IN  [i \in 1..Len(kept) |-> CompletionOf(kept[i])]

\* C30 (cost aggregation with KEEP and DELETE): aggregating a run's usage
\* through CostAwareLLMCaller over step results among which some have no
\* completion raises nothing, and the usage reported when the aggregation
\* returns is that of the other entries' completions.
C30_NoneCompletionsAggregated ==
    MixedConsumed =>
        /\ cost_state # "AttributeError"
        /\ cost_state = "returned" =>
              cost_result.tot_cost = report_llm_usage(IssuedCompletions)

\* results has an entry per message, and an entry that is set is the parsed
\* response to the message at its own index
Positional ==
    /\ Len(results) = batch_messages
    /\ \A i \in 1..batch_messages : results[i].has => results[i].answers = i
\* an entry that is set stays as it is
SetOnce ==
    \A i \in 1..batch_messages : results[i].has => results'[i] = results[i]

\* C35 (positional correspondence): the list batch_llm_completion builds has
\* the length of messages, results[i] is the parsed completion of messages[i]
\* in every retry round, and a result once set is not overwritten by a later
\* round.
C35_PositionalCorrespondence ==
    /\ []Positional
    /\ [][SetOnce]_vars

\* C35 witness: the call returned a list in which the last message's result
\* comes from a later round than the first one's, after a round that sent
\* the last message alone
C35_Witness_RetriedItemAtItsIndex ==
    /\ batch_state = "returned"
    /\ batch_messages = 3
    /\ results[1].round = 0
    /\ results[3].round > 0
    /\ results[3].answers = 3
    /\ LastRound.sent = <<3>>

\* C36 (no None on normal return): when batch_llm_completion returns, every
\* entry of the returned list is a parsed result.
C36_NoNoneOnReturn ==
    batch_state = "returned" => \A i \in 1..batch_messages : results[i].has

\* C36 witness: the call returned after the last round, in which the one
\* message still pending was parsed
C36_Witness_ReturnedAfterLastRound ==
    /\ batch_state = "returned"
    /\ Len(batch_log) = NUM_RETRIES + 1
    /\ batch_messages > 1
    /\ \E i \in 1..batch_messages : results[i].round = NUM_RETRIES
    /\ \A i \in 1..batch_messages : results[i].has

\* the children of message mi of tree t that have this id
WithId(t, mi, id) == {j \in 1..Len(Kids(t, mi)) : Kids(t, mi)[j].id = id}
\* no message of tree t holds two nodes of a writer
NoDuplicateNode(t) ==
    \A mi \in 1..Len(t.children), w \in Writers :
        Cardinality(WithId(t, mi, NodeId(w))) <= 1

\* C37 (node id uniqueness): starting from a tree without duplicates, after
\* any sequence and interleaving of merges through the report and the
\* progress writer a message's children hold at most one node with id
\* report-<task_id> and at most one with id progress-<task_id>.
C37_NodeIdUnique ==
    /\ file.kind = "tree" => NoDuplicateNode(file.tree)
    /\ \A w \in Writers : pc[w] \in {"mkstemp", "dump", "dumping", "move"}
            => NoDuplicateNode(updated[w])

\* C37 witness: both writers have merged twice into the same message, which
\* holds one node of each
C37_Witness_BothMergedTwice ==
    /\ file.kind = "tree"
    /\ merged["w1"] = 2 /\ merged["w2"] = 2
    /\ message_id["w1"] = message_id["w2"]
    /\ \E mi \in 1..Len(file.tree.children) :
            /\ Cardinality(WithId(file.tree, mi, "report-t1")) = 1
            /\ Cardinality(WithId(file.tree, mi, "progress-t1")) = 1

\* the tree writer w read has no direct child with w's message id
TargetMissed(w) ==
    pc[w] \in {"updater", "mkstemp", "dump", "dumping", "move"}
        /\ find_message_in_thread(artifact[w], message_id[w]) = 0
\* a step of the call of writer w whose target message is not in the thread
MissStep(w) ==
    TargetMissed(w) =>
        \* the updater raises nothing and hands back the tree as it was read
        /\ pc[w] = "updater" =>
              /\ success'[w] # "False"
              /\ pc'[w] = "mkstemp" => updated'[w] = artifact[w]
        \* the write puts the tree that was read in the file and returns True
        /\ (pc[w] = "move" /\ pc'[w] = "idle" /\ success'[w] = "True") =>
              /\ file' = TreeFile(artifact[w])
              /\ (\A o \in Writers \ {w} : obj_version[o] = 0) => file' = file
              /\ merged'[w] = merged[w]
\* the writer's own version counter advances with every call
CounterAdvances(w) ==
    (pc[w] = "idle" /\ pc'[w] # "idle") => obj_version'[w] = obj_version[w] + 1

\* C38 (write to a missing message): when the target message id is not among
\* the thread's direct children, a report or progress write raises nothing,
\* update_artifact returns True, the persisted tree has the content and the
\* THREAD version it had (the node is not persisted), and the writer's own
\* version counter has advanced by 1.
C38_MissIsSilentSuccess ==
    [][\A w \in Writers : MissStep(w) /\ CounterAdvances(w)]_vars

\* C38 witness: the report writer, alone, has written to a message the tree
\* lacks: True was returned, the file is as it was, the counter is at 1
C38_Witness_ReportToMissingMessage ==
    /\ message_id["w1"] = "m9"
    /\ obj_version["w1"] = 1 /\ obj_version["w2"] = 0
    /\ pc["w1"] = "idle" /\ success["w1"] = "True"
    /\ file.kind = "tree" /\ file = file0
    /\ merged["w1"] = 0

\* the keys of the two maps, in insertion order
ExtdKeys ==
    [j \in 1..Len(summaries.per_paper_summaries_extd) |->
        summaries.per_paper_summaries_extd[j].key]
MetaKeys ==
    [j \in 1..Len(summaries.quotes_metadata) |-> summaries.quotes_metadata[j].key]
\* the sections that cite row k, and the first of them
CitingRow(k) == {i \in 1..Len(cited) : cited[i] = k}
FirstCiting(k) == CHOOSE i \in CitingRow(k) : \A j \in CitingRow(k) : i <= j
\* the keys of the result that carry the corpus id of row k
KeysOfRow(k) ==
    {j \in 1..Len(ExtdKeys) :
        match_at(ExtdKeys[j], 1).groups[1] = digits(scored_df[k].corpus_id)}

\* C40 (summaries maps): build_per_paper_summaries returns two maps with the
\* same keys; each corpus id cited in the section texts yields at most one
\* key, that of its first occurrence; a cited paper without snippet or
\* abstract text yields no entry in either map.
C40_SummariesMaps ==
    cite_state = "built" =>
        /\ ExtdKeys = MetaKeys
        /\ \A i, j \in 1..Len(ExtdKeys) : ExtdKeys[i] = ExtdKeys[j] => i = j
        /\ \A j \in 1..Len(ExtdKeys) : \E k \in 1..Len(scored_df) : j \in KeysOfRow(k)
        /\ \A k \in 1..Len(scored_df) :
              IF CitingRow(k) = {} \/ scored_df[k].text = "none"
              THEN KeysOfRow(k) = {}
              ELSE /\ Cardinality(KeysOfRow(k)) = 1
                   /\ \A j \in KeysOfRow(k) :
                         SectionText(ExtdKeys[j]) = section_texts[FirstCiting(k)]

\* C40 witness: a row with text is cited twice, the second time with a
\* rewritten citation, and a row without text is cited too: one entry
C40_Witness_FirstOccurrenceKept ==
    /\ cite_state = "built"
    /\ Len(cited) = 3
    /\ \E k \in 1..Len(scored_df) :
            /\ Cardinality(CitingRow(k)) = 2
            /\ \E i \in CitingRow(k) : section_texts[i] # section_texts[FirstCiting(k)]
    /\ \E k \in 1..Len(scored_df) : CitingRow(k) # {} /\ scored_df[k].text = "none"
    /\ Len(ExtdKeys) = 1

\* ------------------------------------------------ properties of the watcher
\* the position of the artifact's first child of type MESSAGE (0: none, or a
\* child that is no object comes before it)
FirstMessage(a) ==
    LET ms == {i \in 1..Len(a.children) :
                  /\ a.children[i].is_dict
                  /\ a.children[i].type = "MESSAGE"
                  /\ \A j \in 1..(i - 1) :
                        a.children[j].is_dict /\ a.children[j].type # "MESSAGE"}
    IN  IF ms = {} THEN 0 ELSE CHOOSE i \in ms : TRUE
\* a dict whose data.type is THREAD and whose first message has no report
Eligible(a) ==
    /\ a.kind = "dict"
    /\ a.data_is_dict
    /\ a.type = "THREAD"
    /\ FirstMessage(a) # 0
    /\ \A k \in 1..Len(a.children[FirstMessage(a)].children) :
          a.children[FirstMessage(a)].children[k] # "SQA_REPORT"

\* C31: the callback is invoked for an artifact only if it is a dict whose
\* data.type is THREAD and whose first child of type MESSAGE has no child of
\* type SQA_REPORT; an artifact the handler skips is not such an artifact, so
\* a STEP_PROGRESS child alone does not make the message ineligible.
C31_WatcherEligibility ==
    /\ wpc = "callback" => Eligible(wartifact)
    /\ woutcome = "skipped" => ~Eligible(wartifact)
\* the callback runs for a thread whose first message has a progress child
\* and no report, beside a later message that has one
C31_Witness_ProgressOnlyInvoked ==
    /\ wpc = "callback"
    /\ wartifact = WatchedNode("THREAD", <<WatchedChild("MESSAGE", <<"STEP_PROGRESS">>),
                                          WatchedChild("MESSAGE", <<"SQA_REPORT">>)>>)

\* C32: once the callback has returned without raising for a path, no
\* on_modified event for that path dispatched afterwards reaches the read or
\* the callback again.
C32_NoSelfRetrigger ==
    (wpc \in {"sleep", "callback"} /\ wevent.kind = "modified")
        => wevent.src_path \notin completed
\* a modified event for a processed path is dropped although the file, with
\* the pipeline's progress written into it, would still pass the test
C32_Witness_ModifiedAfterCompletion ==
    /\ TPath \in completed
    /\ wevent = FileEvent("modified", FALSE, TPath)
    /\ woutcome = "filtered"
    /\ wfile = WatchedNode("THREAD", <<WatchedChild("MESSAGE", <<"STEP_PROGRESS">>)>>)
    /\ reads = 1

\* C33: a second _process_artifact for a path whose _process_artifact is
\* running returns without the callback; when _process_artifact has returned,
\* for any reason, the path is not in processing_lock; a path is in
\* processed_artifacts only if its callback returned without raising.
C33_LockDiscipline ==
    /\ second_call # "entered"
    /\ wpc = "idle" => wevent.src_path \notin processing_lock
    /\ wpc \in {"sleep", "callback"} => wevent.src_path \in processing_lock
    /\ processed_artifacts \subseteq completed
\* the first event's read failed, the second event's processing ran the
\* callback, during which a second call returned at the lock
C33_Witness_ProcessedAfterFailedRead ==
    /\ events_seen = 2
    /\ TPath \in read_failed
    /\ woutcome = "processed"
    /\ wevent.src_path = TPath
    /\ second_call = "returned"
    /\ processing_lock = {}
    /\ processed_artifacts = {TPath}

\* the event is for a directory, for a path not ending in .json, or for a
\* file name starting with .tmp_
Ignored(event) ==
    \/ event.is_directory
    \/ ~endswith(event.src_path, JsonSuffix)
    \/ startswith(path_name(event.src_path), TmpPrefix)

\* C34: an event for a directory, for a path not ending in .json, or for a
\* file name starting with .tmp_ never causes an artifact to be read or the
\* callback to be invoked: the handler is back at rest with nothing locked.
C34_IgnoredEvents ==
    (wevent # NoEvent /\ Ignored(wevent)) =>
        /\ wpc = "idle"
        /\ woutcome = "filtered"
        /\ processing_lock = {}
\* two events, the last one for a temp file of write_artifact, and no read
C34_Witness_TempFileNotRead ==
    /\ wevent = FileEvent("created", FALSE, TmpPath)
    /\ events_seen = 2
    /\ reads = 0
    /\ Eligible(wfile)

\* ------------------------------------- properties of the unified generation
\* the requests of the current report made through llm_completion
CompletionRequests == SelectSeq(requests, LAMBDA r : r.by = "llm_completion")
\* the configured generator answered the current report's request
GeneratorSucceeded ==
    \E i \in 1..Len(requests) : requests[i].by = "generator" /\ requests[i].content # "raised"

\* C39: generate_report issues exactly one generation request per report: when
\* a ResponseGenerator is configured and succeeds, the report is parsed from
\* its response and llm_completion is not called; llm_completion is called
\* once when no generator is configured or when the generator raised.
C39_OneGenerationRequest ==
    unified_pc = "parsed" =>
        IF GeneratorSucceeded
        THEN /\ Len(CompletionRequests) = 0
             /\ parsed_response.by = "generator"
        ELSE Len(CompletionRequests) = 1
====
